---- MODULE Spec2Model ----
(***************************************************************************)
(* Verification model of the RAG processor of expense-bot                  *)
(* (src/backend/functions/rag_processor): the document indexer and its     *)
(* job queue, the LanceDB vector store, the search engine's document       *)
(* cache and the HTTP facade that drives them.                             *)
(*                                                                         *)
(* Scalars are scaled to integers: similarity scores and cosine distances  *)
(* are in hundredths, time is in whole seconds.                            *)
(***************************************************************************)
EXTENDS Integers, Sequences, FiniteSets, Bags, TLC

VARIABLES
    now,             \* datetime.now(), in seconds
    files,           \* the file system: path -> the bytes there ("missing" when none)
    jobs,            \* heap of IndexingJob objects (a job is named by its index)
    job_queue,       \* ExpenseDocumentIndexer.job_queue: list of jobs
    active_jobs,     \* ExpenseDocumentIndexer.active_jobs: job_id -> job
    completed_jobs,  \* ExpenseDocumentIndexer.completed_jobs: job_id -> job
    failed_jobs,     \* ExpenseDocumentIndexer.failed_jobs: job_id -> job, in insertion order
    metrics,         \* ExpenseDocumentIndexer.metrics
    indexer_attrs,   \* names of the back-reference attributes set on the indexer object
    table,           \* rows of the LanceDB table (a bag: table.add appends, ids may repeat)
    document_cache,  \* ExpenseDocumentSearchEngine.document_cache
    last,            \* the last operation and, for reads, what it returned
    pool,            \* the worker threads of process_batch's ThreadPoolExecutor
    engine_indexer,  \* the indexer the search engine of main.py constructs for itself
    chunking,        \* a call of a chunking strategy: its arguments and local variables
    in_flight        \* the POST /index requests being handled, each on its own thread

vars == <<now, files, jobs, job_queue, active_jobs, completed_jobs, failed_jobs,
          metrics, indexer_attrs, table, document_cache, last, pool,
          engine_indexer, chunking, in_flight>>

(***************************************************************************)
(* Bounds of the model                                                     *)
(***************************************************************************)
MaxJobs == 2          \* jobs submitted to the indexer
MaxRequeues == 1      \* times one job is sent back to the queue
MaxRetryRounds == 4   \* the same, where retries are followed past max_retries
MaxRows == 2          \* rows in the table of the store-only specification
MaxRequests == 2      \* documents submitted in the service specification

(***************************************************************************)
(* Program constants                                                       *)
(***************************************************************************)
max_retries == 3
cache_ttl == 3600
engine_similarity_threshold == 30
store_similarity_threshold == 1

None == "<None>"
NoTime == -1

Tenants == {"t1", "t2"}
Priorities == 1..3
DocIds == {<<"d1">>, <<"d2">>}

(***************************************************************************)
(* Files.  What the parser and the chunker make of a file is a function of *)
(* its bytes: FileText is the kind of text the parser extracts, FileChunks *)
(* the contents of the chunks cut from that text (a content is named by a  *)
(* small number; 0 is the blank string).  A user file is named after its   *)
(* bytes; the temporary files of the facade are written and unlinked.      *)
(***************************************************************************)
Bytes == {"receipt", "note", "blank", "corrupt", "shredded", "binary", "scan"}
UserPaths == Bytes \cup {"nowhere"}
TempPaths == {"tmp1", "tmp2"}
Paths == UserPaths \cup TempPaths

InitFiles == [p \in Paths |-> IF p \in Bytes THEN p ELSE "missing"]

\* page.extract_text() of every page of a PDF; "scan" is a PDF of one page
\* that holds an image and no text
PageTexts(bytes) == IF bytes = "scan" THEN <<"">> ELSE <<>>

\* _process_pdf: content_data['text'] += "--- Page n ---" and the page's
\* text, for every page; blank only when there is no page
PdfText(pages) == IF pages = <<>> THEN "blank" ELSE "text"

\* the content of a chunk that holds a page banner and nothing else
PageBanner == 3

FileText(bytes) ==
    CASE bytes = "receipt"  -> "text"
      [] bytes = "scan"     -> PdfText(PageTexts(bytes))
      [] bytes = "note"     -> "text"
      [] bytes = "shredded" -> "text"
      [] bytes = "blank"    -> "blank"
      [] OTHER              -> "unreadable"

FileChunks(bytes) ==
    CASE bytes = "receipt" -> <<1, 2>>
      [] bytes = "note"    -> <<2>>
      [] bytes = "scan"    -> <<PageBanner>>
      [] OTHER             -> <<>>

\* hashlib.sha256(file_content).hexdigest(): no two contents share a hash
sha256(bytes) ==
    CASE bytes = "receipt"  -> "sha256 of receipt"
      [] bytes = "note"     -> "sha256 of note"
      [] bytes = "blank"    -> "sha256 of blank"
      [] bytes = "corrupt"  -> "sha256 of corrupt"
      [] bytes = "shredded" -> "sha256 of shredded"
      [] bytes = "binary"   -> "sha256 of binary"
      [] bytes = "scan"     -> "sha256 of scan"

\* the MIME type is one of ExpenseDocumentParser.supported_types
IsSupported(bytes) == bytes # "binary"

BlankContent == 0
NoDoc == <<>>
Absent == "<absent>"

\* Caller metadata: a mapping whose keys may be any strings; the keys that
\* meet a name used by the pipeline are kept, Absent marking a missing key.
NoContent == -1

NoMetadata ==
    [business_id |-> Absent, document_id |-> Absent,
     document_hash |-> Absent, content |-> NoContent, category |-> Absent]

(***************************************************************************)
(* Python containers                                                       *)
(***************************************************************************)
EmptyDict == [k \in {} |-> 0]

DictSet(d, k, v) == [x \in (DOMAIN d) \cup {k} |-> IF x = k THEN v ELSE d[x]]

DictPop(d, k) == [x \in (DOMAIN d) \ {k} |-> d[x]]

\* An insertion-ordered dict, as a sequence of [key, job] items.
ODKeys(od) == {od[i].key : i \in 1..Len(od)}

ODSet(od, k, v) ==
    IF k \in ODKeys(od)
    THEN [i \in 1..Len(od) |-> IF od[i].key = k THEN [key |-> k, job |-> v] ELSE od[i]]
    ELSE Append(od, [key |-> k, job |-> v])

ODPop(od, k) == SelectSeq(od, LAMBDA it : it.key # k)

\* list.sort(key=lambda x: x.priority): a stable sort, here by insertion.
RECURSIVE InsertByPriority(_, _, _)
\* a queue left as it is (what add_document without its sort would do)
KeepOrder(js, q) == q

InsertByPriority(js, sorted, j) ==
    IF sorted = <<>> THEN <<j>>
    ELSE IF js[Head(sorted)].priority <= js[j].priority
         THEN <<Head(sorted)>> \o InsertByPriority(js, Tail(sorted), j)
         ELSE <<j>> \o sorted

RECURSIVE SortByPriority(_, _)
SortByPriority(js, q) ==
    IF q = <<>> THEN <<>>
    ELSE InsertByPriority(js, SortByPriority(js, SubSeq(q, 1, Len(q) - 1)), q[Len(q)])

(***************************************************************************)
(* IndexingJob                                                             *)
(***************************************************************************)
\* hashlib.md5 of path, tenant and creation time
GenerateDocumentId(file_path, business_id, created_at) ==
    <<file_path, business_id, created_at>>

\* job_<YYYYmmdd_HHMMSS>_<md5(file_path)[:8]>
JobId(t, file_path) == <<t, file_path>>

\* enq, requeues, trail and errors are history fields: when the job last
\* entered the queue, how often it went from failed back to pending, every
\* value assigned to status, and every error the job failed with.
IndexingJob(job_id, file_path, business_id, document_id, metadata, priority, t, stamp) ==
    [job_id |-> job_id,
     file_path |-> file_path,
     business_id |-> business_id,
     metadata |-> metadata,
     priority |-> priority,
     status |-> "pending",
     created_at |-> t,
     started_at |-> NoTime,
     completed_at |-> NoTime,
     error_message |-> None,
     chunks_created |-> 0,
     processing_time |-> NoTime,
     progress |-> [stage |-> None, percentage |-> 0,
                   stage_start_time |-> NoTime, stages_completed |-> <<>>],
     document_id |-> IF document_id = NoDoc
                     THEN GenerateDocumentId(file_path, business_id, t)
                     ELSE document_id,
     enq |-> stamp,
     requeues |-> 0,
     trail |-> <<"pending">>,
     errors |-> <<>>]

\* job.status = status
SetStatus(job, status) ==
    [job EXCEPT !.status = status, !.trail = Append(@, status)]

update_progress(job, stage, percentage, t) ==
    LET p == job.progress
        q == IF p.stage # stage
             THEN [p EXCEPT !.stages_completed =
                                IF p.stage # None THEN Append(@, p.stage) ELSE @,
                            !.stage = stage,
                            !.stage_start_time = t]
             ELSE p
    IN [job EXCEPT !.progress = [q EXCEPT !.percentage = percentage]]

(***************************************************************************)
(* Chunker                                                                 *)
(***************************************************************************)
\* ChunkingStrategy._generate_chunk_id: document id, index and content hash
ChunkId(document_id, chunk_index, content) == <<document_id, chunk_index, content>>

\* SemanticTextChunker.chunk_document: the strategy's chunks, then every
\* metadata key that is not yet an attribute of ChunkMetadata is set on it
\* (document_id is one, so a metadata document_id is not copied).
chunk_document(bytes, document_id, metadata) ==
    LET contents == FileChunks(bytes)
    IN [i \in 1..Len(contents) |->
          [content |-> contents[i],
           metadata |-> [chunk_id |-> ChunkId(document_id, i - 1, contents[i]),
                         document_id |-> document_id,
                         chunk_index |-> i - 1,
                         business_id |-> metadata.business_id,
                         content |-> metadata.content,
                         document_hash |-> metadata.document_hash,
                         category |-> metadata.category]]]

(***************************************************************************)
(* ExpenseDocumentVectorStore                                              *)
(***************************************************************************)
\* The dict literal of process_job: the four named keys, then
\* **chunk.metadata.__dict__, whose keys replace the ones before them.
VectorDocument(job, chunk) ==
    LET cm == chunk.metadata
    IN [id |-> cm.chunk_id,
        business_id |-> IF cm.business_id # Absent THEN cm.business_id ELSE job.business_id,
        document_id |-> cm.document_id,
        content |-> IF cm.content # NoContent THEN cm.content ELSE chunk.content,
        chunk_index |-> cm.chunk_index,
        category |-> cm.category]

\* the row add_documents makes of a document: doc.get('category', '') is
\* the expense_category column
Row(doc) ==
    [chunk_id |-> doc.id,
     business_id |-> doc.business_id,
     document_id |-> doc.document_id,
     content |-> doc.content,
     expense_category |-> IF doc.category = Absent THEN "" ELSE doc.category,
     chunk_index |-> doc.chunk_index]

BagAdd(b, r) ==
    [x \in (DOMAIN b) \cup {r} |-> IF x = r THEN (IF r \in DOMAIN b THEN b[r] + 1 ELSE 1) ELSE b[x]]

RECURSIVE BagAddAll(_, _)
BagAddAll(b, rows) ==
    IF rows = <<>> THEN b ELSE BagAddAll(BagAdd(b, Head(rows)), Tail(rows))

\* add_documents: documents with blank content are skipped; the rest are
\* added in one table.add.  store_ok tells whether the embedding model and
\* the table answer; when they do not the call raises and adds nothing.
add_documents(tbl, documents, store_ok) ==
    LET kept == SelectSeq(documents, LAMBDA d : d.content # BlankContent)
        rows == [i \in 1..Len(kept) |-> Row(kept[i])]
        ids  == [i \in 1..Len(kept) |-> kept[i].id]
    IN IF documents = <<>> THEN [table |-> tbl, ids |-> <<>>, raised |-> FALSE]
       ELSE IF ~store_ok /\ kept # <<>> THEN [table |-> tbl, ids |-> <<>>, raised |-> TRUE]
       ELSE [table |-> BagAddAll(tbl, rows), ids |-> ids, raised |-> FALSE]

\* table.delete("document_id = '<id>'")
delete_document(tbl, document_id) ==
    [r \in {x \in DOMAIN tbl : x.document_id # document_id} |-> tbl[r]]

\* get_document_chunks: the rows of a document, whatever their tenant (the
\* method has no business_id parameter)
get_document_chunks(tbl, document_id) ==
    {c \in UNION {{<<r, i>> : i \in 1..tbl[r]} : r \in DOMAIN tbl} :
        c[1].document_id = document_id}

\* get_stats: the rows of the tenant when business_id is truthy, else the
\* whole table; counts of rows, documents and tenants among them
get_stats(tbl, business_id) ==
    LET results == {c \in UNION {{<<r, i>> : i \in 1..tbl[r]} : r \in DOMAIN tbl} :
                       business_id \in {None, ""} \/ c[1].business_id = business_id}
    IN [total_chunks |-> Cardinality(results),
        unique_documents |-> Cardinality({c[1].document_id : c \in results}),
        unique_businesses |-> Cardinality({c[1].business_id : c \in results}),
        scanned |-> results]

RowCount(tbl, rowset) ==
    LET RECURSIVE Sum(_)
        Sum(S) == IF S = {} THEN 0
                  ELSE LET r == CHOOSE x \in S : TRUE IN tbl[r] + Sum(S \ {r})
    IN Sum(rowset)

RowsOfDocument(tbl, document_id) ==
    RowCount(tbl, {r \in DOMAIN tbl : r.document_id = document_id})

RowsOfTenant(tbl, business_id) ==
    RowCount(tbl, {r \in DOMAIN tbl : r.business_id = business_id})

TotalRows(tbl) == RowCount(tbl, DOMAIN tbl)

(***************************************************************************)
(* ExpenseDocumentSearchEngine: the document cache                         *)
(***************************************************************************)
cache_max_entries == 100
cache_evict_count == 10

CacheKey(business_id, document_hash) == <<business_id, document_hash>>

CacheKeys(cache) == {cache[i].key : i \in 1..Len(cache)}

CacheGet(cache, k) == (CHOOSE i \in 1..Len(cache) : cache[i].key = k)

\* the keys in the order the dict holds them
KeepInsertionOrder(cache) == cache

\* sorted(keys, key=cached_at): stable, the older entry first; an item's
\* place is the number of items that sort before it
SortByCachedAt(cache) ==
    LET n == Len(cache)
        before == [i \in 1..n |->
                     Cardinality({j \in 1..n :
                        \/ cache[j].entry.cached_at < cache[i].entry.cached_at
                        \/ /\ cache[j].entry.cached_at = cache[i].entry.cached_at
                           /\ j < i})]
    IN [p \in 1..n |-> cache[CHOOSE i \in 1..n : before[i] = p - 1]]

cache_document_result(cache, document_hash, business_id, job_result, t) ==
    LET k == CacheKey(business_id, document_hash)
        cached_data == [job_id |-> job_result.job_id,
                        document_id |-> job_result.document_id,
                        chunks_created |-> job_result.chunks_created,
                        processing_time |-> job_result.processing_time,
                        cached_at |-> t,
                        document_hash |-> document_hash]
        it == [key |-> k, entry |-> cached_data]
        stored == IF k \in CacheKeys(cache)
                  THEN [i \in 1..Len(cache) |-> IF cache[i].key = k THEN it ELSE cache[i]]
                  ELSE Append(cache, it)
        oldest == LET srt == SortByCachedAt(stored)
                  IN {srt[i].key : i \in 1..cache_evict_count}
    IN IF Len(stored) > cache_max_entries
       THEN SelectSeq(stored, LAMBDA x : x.key \notin oldest)
       ELSE stored

\* a lookup that still returns an entry of age cache_ttl
check_document_cache_inclusive(cache, document_hash, business_id, t) ==
    LET k == <<business_id, document_hash>>
        at == CHOOSE i \in 1..Len(cache) : cache[i].key = k
    IN IF k \in {cache[i].key : i \in 1..Len(cache)}
       THEN IF t - cache[at].entry.cached_at <= cache_ttl
            THEN [hit |-> TRUE, entry |-> <<cache[at].entry>>, cache |-> cache]
            ELSE [hit |-> FALSE, entry |-> <<>>,
                  cache |-> SelectSeq(cache, LAMBDA x : x.key # k)]
       ELSE [hit |-> FALSE, entry |-> <<>>, cache |-> cache]

\* check_document_cache: the entry when it is younger than cache_ttl; an
\* expired entry is deleted.  Returns the entry found (or none) and the cache.
check_document_cache(cache, document_hash, business_id, t) ==
    LET k == CacheKey(business_id, document_hash)
    IN IF k \in CacheKeys(cache)
       THEN LET it == cache[CacheGet(cache, k)]
            IN IF t - it.entry.cached_at < cache_ttl
               THEN [hit |-> TRUE, entry |-> <<it.entry>>, cache |-> cache]
               ELSE [hit |-> FALSE, entry |-> <<>>,
                     cache |-> SelectSeq(cache, LAMBDA x : x.key # k)]
       ELSE [hit |-> FALSE, entry |-> <<>>, cache |-> cache]

(***************************************************************************)
(* ExpenseDocumentIndexer                                                  *)
(***************************************************************************)
InitMetrics ==
    [total_jobs_processed |-> 0,
     total_documents_processed |-> 0,
     total_chunks_created |-> 0,
     total_processing_time |-> 0,
     average_processing_time |-> <<0, 1>>,   \* a quotient, as <<dividend, divisor>>
     success_rate |-> <<0, 1>>,
     last_processed |-> NoTime]

_update_metrics(m, job, total_completed, total_failed) ==
    LET m1 == [m EXCEPT !.total_jobs_processed = @ + 1]
        m2 == IF job.status = "completed"
              THEN [m1 EXCEPT !.total_documents_processed = @ + 1,
                              !.total_chunks_created = @ + job.chunks_created,
                              !.total_processing_time = @ + job.processing_time,
                              !.last_processed = job.completed_at]
              ELSE m1
        m3 == IF m2.total_jobs_processed > 0
              THEN [m2 EXCEPT !.average_processing_time =
                                  <<m2.total_processing_time, m2.total_jobs_processed>>]
              ELSE m2
        total_finished == total_completed + total_failed
    IN IF total_finished > 0
       THEN [m3 EXCEPT !.success_rate = <<total_completed, total_finished>>]
       ELSE m3

\* no call of a chunking strategy is under way
NoCall == [at |-> "idle"]

\* the collections of an indexer as __init__ leaves them
NewIndexer ==
    [job_queue |-> <<>>, active_jobs |-> EmptyDict, completed_jobs |-> EmptyDict,
     failed_jobs |-> <<>>, metrics |-> InitMetrics]

\* The indexer, the store and the cache as one value, for the operators
\* below, which are the methods as functions from state to state.
State ==
    [now |-> now, files |-> files, jobs |-> jobs, job_queue |-> job_queue,
     active_jobs |-> active_jobs, completed_jobs |-> completed_jobs,
     failed_jobs |-> failed_jobs, metrics |-> metrics,
     indexer_attrs |-> indexer_attrs, table |-> table,
     document_cache |-> document_cache]

NoResult ==
    [job_id |-> <<>>, status |-> None, document_id |-> NoDoc, chunks_created |-> 0,
     processing_time |-> NoTime, vector_store_success |-> FALSE, error |-> None]

\* the except branch without its statements: the job stays as it was
JobLeftProcessing(st, j, job, error, t1) ==
    [st |-> [st EXCEPT !.now = t1,
                       !.jobs[j] = job,
                       !.active_jobs = DictSet(@, job.job_id, j)],
     result |-> [NoResult EXCEPT !.job_id = job.job_id, !.status = "failed",
                                 !.error = error]]

\* The except branch of process_job.
JobFailed(st, j, job, error, t1) ==
    LET failed == [SetStatus(job, "failed")
                       EXCEPT !.error_message = error,
                              !.errors = Append(@, error),
                              !.completed_at = t1,
                              !.processing_time = t1 - job.started_at]
    IN [st |-> [st EXCEPT !.now = t1,
                          !.jobs[j] = failed,
                          !.active_jobs = DictPop(DictSet(@, job.job_id, j), job.job_id),
                          !.failed_jobs = ODSet(@, job.job_id, j)],
        result |-> [NoResult EXCEPT !.job_id = job.job_id, !.status = "failed",
                                    !.error = error,
                                    !.processing_time = failed.processing_time]]

\* the result dictionary of a completed job
CompletedResult(job, vector_store_success) ==
    [NoResult EXCEPT !.job_id = job.job_id, !.status = "completed",
                     !.document_id = job.document_id,
                     !.chunks_created = job.chunks_created,
                     !.processing_time = job.processing_time,
                     !.vector_store_success = vector_store_success]

\* The try branch of process_job, from the chunks on.
JobIndexed(st, j, job, chunks, env, t1) ==
    LET j4 == update_progress(job, "chunking", 60, t1)
        vector_documents == [i \in 1..Len(chunks) |-> VectorDocument(j4, chunks[i])]
        j5 == update_progress(j4, "indexing", 80, t1)
        added == add_documents(st.table, vector_documents, env.store_ok)
        j6 == [SetStatus(update_progress(j5, "completed", 100, t1), "completed")
                   EXCEPT !.completed_at = t1,
                          !.chunks_created = Len(chunks),
                          !.processing_time = t1 - job.started_at]
        active == DictPop(DictSet(st.active_jobs, job.job_id, j), job.job_id)
        completed == DictSet(st.completed_jobs, job.job_id, j)
        result == CompletedResult(j6, Len(added.ids) > 0)
        document_hash == j6.metadata.document_hash
    IN IF added.raised
       THEN JobFailed(st, j, j5, "vector store error", t1)
       ELSE [st |-> [st EXCEPT
                       !.now = t1,
                       !.jobs[j] = j6,
                       !.table = added.table,
                       !.active_jobs = active,
                       !.completed_jobs = completed,
                       !.metrics = _update_metrics(@, j6, Cardinality(DOMAIN completed),
                                                   Len(st.failed_jobs)),
                       !.document_cache =
                           IF "_rag_service_ref" \in st.indexer_attrs
                              /\ document_hash # Absent
                           THEN cache_document_result(@, document_hash, j6.business_id,
                                                      result, t1)
                           ELSE @],
             result |-> result]

\* job.status = "processing"; job.started_at = datetime.now(), forgetting
\* the status (what a process_job without the first assignment would do)
StartJobUnmarked(job, t0) == [job EXCEPT !.started_at = t0]

\* job.status = "processing"; job.started_at = datetime.now()
StartJob(job, t0) == [SetStatus(job, "processing") EXCEPT !.started_at = t0]

\* process_job: env is what the outside decides during the call, whether
\* the vector store answers (store_ok) and how long the call takes (dur).
process_job(st, j, env) ==
    LET t0 == st.now
        t1 == st.now + env.dur
        j0 == StartJob(st.jobs[j], t0)
        j1 == update_progress(j0, "parsing", 10, t0)
        bytes == st.files[j1.file_path]
        text == FileText(bytes)
        j2 == update_progress(j1, "parsing", 30, t1)
        j3 == update_progress(j2, "chunking", 40, t1)
        chunks == chunk_document(bytes, j3.document_id, j3.metadata)
    IN IF bytes = "missing"
       THEN JobFailed(st, j, j1, "Document not found", t1)
       ELSE IF ~IsSupported(bytes)
       THEN JobFailed(st, j, j1, "Unsupported file type", t1)
       ELSE IF text = "unreadable"
       THEN JobFailed(st, j, j1, "cannot read document", t1)
       ELSE IF text = "blank"
       THEN JobFailed(st, j, j2, "No text content extracted from document", t1)
       ELSE IF chunks = <<>>
       THEN JobFailed(st, j, j3, "No chunks created from document", t1)
       ELSE JobIndexed(st, j, j3, chunks, env, t1)

NextStamp(js) ==
    LET S == {js[i].enq : i \in 1..Len(js)}
    IN IF S = {} THEN 1 ELSE 1 + (CHOOSE m \in S : \A x \in S : x <= m)

\* add_document: raises when the file is missing or of an unsupported type,
\* else appends a new job and sorts the queue by priority.
add_document(st, file_path, business_id, document_id, metadata, priority) ==
    LET job_id == JobId(st.now, file_path)
        job == IndexingJob(job_id, file_path, business_id, document_id, metadata,
                           priority, st.now, NextStamp(st.jobs))
        js == Append(st.jobs, job)
    IN IF st.files[file_path] = "missing"
       THEN [st |-> st, job_id |-> <<>>, raised |-> "FileNotFoundError"]
       ELSE IF ~IsSupported(st.files[file_path])
       THEN [st |-> st, job_id |-> <<>>, raised |-> "ValueError"]
       ELSE [st |-> [st EXCEPT !.jobs = js,
                               !.job_queue = SortByPriority(js, Append(@, Len(js)))],
             job_id |-> job_id, raised |-> None]

\* process_next_job: None on an empty queue, else pop(0) and process_job.
process_next_job(st, env) ==
    IF st.job_queue = <<>>
    THEN [st |-> st, result |-> NoResult]
    ELSE process_job([st EXCEPT !.job_queue = Tail(@)], Head(st.job_queue), env)

\* process_job on each job of a list, one after the other.
RECURSIVE ProcessAll(_, _, _)
ProcessAll(st, js, envs) ==
    IF js = <<>> THEN [st |-> st, results |-> <<>>]
    ELSE LET one == process_job(st, Head(js), Head(envs))
             rest == ProcessAll(one.st, Tail(js), Tail(envs))
         IN [st |-> rest.st, results |-> <<one.result>> \o rest.results]

batch_size == 50

\* process_batch.  Both modes take the first min(max_jobs, len(queue)) jobs
\* off the queue in queue order; the sequential mode processes each as it is
\* popped, the parallel mode pops them all and hands them to the pool, whose
\* workers finish in any order (order is a permutation of the batch).
process_batch(st, max_jobs, parallel, order, envs) ==
    LET limit == IF max_jobs = 0 THEN batch_size ELSE max_jobs
        n == IF limit < Len(st.job_queue) THEN limit ELSE Len(st.job_queue)
        batch == SubSeq(st.job_queue, 1, n)
        rest == SubSeq(st.job_queue, n + 1, Len(st.job_queue))
        run == IF parallel THEN [i \in 1..n |-> batch[order[i]]] ELSE batch
    IN ProcessAll([st EXCEPT !.job_queue = rest], run, envs)

\* retry_failed_jobs: every failed job, in the order of failed_jobs, is reset
\* and appended to the queue; the queue is then sorted by priority.
RECURSIVE RequeueAll(_, _)
RequeueAll(st, items) ==
    IF items = <<>> THEN st
    ELSE LET j == Head(items).job
             job == [SetStatus(st.jobs[j], "pending")
                        EXCEPT !.started_at = NoTime,
                                       !.completed_at = NoTime,
                                       !.error_message = None,
                                       !.enq = NextStamp(st.jobs),
                                       !.requeues = @ + 1]
         IN RequeueAll([st EXCEPT !.jobs[j] = job,
                                  !.job_queue = Append(@, j),
                                  !.failed_jobs = ODPop(@, Head(items).key)],
                       Tail(items))

retry_failed_jobs(st) ==
    LET moved == RequeueAll(st, st.failed_jobs)
    IN [moved EXCEPT !.job_queue = SortByPriority(moved.jobs, @)]

clear_completed_jobs(st) == [st EXCEPT !.completed_jobs = EmptyDict]

\* get_job_status: the job under job_id in active_jobs, completed_jobs,
\* failed_jobs or the queue, looked up in this order; <<>> stands for None
get_job_status(st, job_id) ==
    IF job_id \in DOMAIN st.active_jobs
    THEN <<st.jobs[st.active_jobs[job_id]]>>
    ELSE IF job_id \in DOMAIN st.completed_jobs
    THEN <<st.jobs[st.completed_jobs[job_id]]>>
    ELSE IF job_id \in ODKeys(st.failed_jobs)
    THEN <<st.jobs[st.failed_jobs[CHOOSE i \in 1..Len(st.failed_jobs) :
                                     st.failed_jobs[i].key = job_id].job]>>
    ELSE LET queued == SelectSeq(st.job_queue, LAMBDA j : st.jobs[j].job_id = job_id)
         IN IF queued = <<>> THEN <<>> ELSE <<st.jobs[Head(queued)]>>

(***************************************************************************)
(* Search                                                                  *)
(***************************************************************************)
\* a string with a quote in it, as a caller may send for any string field
Injected == "x' OR '1'='1"

\* the same without blanks, as it fits in one word of a query
InjectedWord == "x'or'1'='1"

Queries == {"", "latte", "how much", "latte category:food",
            "latte category:x'or'1'='1"}

\* QueryEnhancer.enhance_query, on the queries above: "how much" becomes
\* "amount cost total", then every word that is a synonym gets the others
enhance_query(query) ==
    CASE query = "how much" ->
             "amount cost total price sum charge fee total cost price sum charge fee"
      [] OTHER -> query

\* a search without filters
NoFilters == [category |-> None]

\* QueryEnhancer.extract_filters, on the queries above: the word after
\* "category:" becomes the category filter and leaves the query
extract_filters(query) ==
    CASE query = "latte category:food" ->
             [query |-> "latte", filters |-> [category |-> "food"]]
      [] query = "latte category:x'or'1'='1" ->
             [query |-> "latte", filters |-> [category |-> InjectedWord]]
      [] OTHER -> [query |-> query, filters |-> NoFilters]

\* SentenceTransformer.encode: texts and chunk contents to (names of) vectors
EncodeQuery(query) ==
    CASE query = "latte" -> 1
      [] query = "amount cost total price sum charge fee total cost price sum charge fee" -> 2
      [] OTHER -> 3

EncodeContent(content) == content

\* the cosine distance LanceDB reports, in hundredths (0 .. 200)
CosineDistance(u, v) ==
    CASE u = v                   -> 0
      [] u - v = 1 \/ v - u = 1    -> 120
      [] OTHER                   -> 160

\* similarity = max(0.0, 1.0 - distance / 2.0), in hundredths
Similarity(distance) ==
    IF 100 - (distance \div 2) > 0 THEN 100 - (distance \div 2) ELSE 0

\* The text of a string as the SQL lexer reads it: quotes and keywords are
\* lexemes of their own (keywords in either case), anything else is one.
Lexemes(str) ==
    CASE str = "" -> <<>>
      [] str \in {Injected, InjectedWord} ->
             <<"x", "'", "OR", "'", "1", "'", "=", "'", "1">>
      [] OTHER -> <<str>>

\* f"{value}": None is written as the word None
Format(value) == IF value = None THEN "None" ELSE value

\* where_clause = f"business_id = '{business_id}'", then
\* f" AND expense_category = '{value}'" for a category filter
where_clause(business_id, filters) ==
    <<"business_id", "=", "'">> \o Lexemes(Format(business_id)) \o <<"'">>
        \o (IF filters.category # None
            THEN <<"AND", "expense_category", "=", "'">>
                     \o Lexemes(filters.category) \o <<"'">>
            ELSE <<>>)

\* the pieces of a clause between the separators that stand outside quotes
RECURSIVE SplitAt(_, _, _, _)
SplitAt(toks, sep, quoted, piece) ==
    IF toks = <<>> THEN <<piece>>
    ELSE IF Head(toks) = "'"
         THEN SplitAt(Tail(toks), sep, ~quoted, Append(piece, "'"))
    ELSE IF Head(toks) = sep /\ ~quoted
         THEN <<piece>> \o SplitAt(Tail(toks), sep, FALSE, <<>>)
    ELSE SplitAt(Tail(toks), sep, quoted, Append(piece, Head(toks)))

Columns == {"business_id", "expense_category"}

IsColumn(operand) == Len(operand) = 1 /\ operand[1] \in Columns

IsLiteral(operand) ==
    /\ Len(operand) >= 2
    /\ operand[1] = "'"
    /\ operand[Len(operand)] = "'"
    /\ \A i \in 2..(Len(operand) - 1) : operand[i] # "'"

\* a comparison is operand = operand, an operand a column or a literal
WellFormed(clause) ==
    \A d \in 1..Len(SplitAt(clause, "OR", FALSE, <<>>)) :
        LET conj == SplitAt(SplitAt(clause, "OR", FALSE, <<>>)[d], "AND", FALSE, <<>>)
        IN \A c \in 1..Len(conj) :
              LET sides == SplitAt(conj[c], "=", FALSE, <<>>)
              IN /\ Len(sides) = 2
                 /\ \A x \in 1..2 : IsColumn(sides[x]) \/ IsLiteral(sides[x])

OperandValue(operand, row) ==
    IF IsColumn(operand) THEN Lexemes(row[operand[1]])
    ELSE SubSeq(operand, 2, Len(operand) - 1)

\* the SQL engine's reading of the clause on one row: OR of ANDs of equalities
WhereClause(clause, row) ==
    \E d \in 1..Len(SplitAt(clause, "OR", FALSE, <<>>)) :
        LET conj == SplitAt(SplitAt(clause, "OR", FALSE, <<>>)[d], "AND", FALSE, <<>>)
        IN \A c \in 1..Len(conj) :
              LET sides == SplitAt(conj[c], "=", FALSE, <<>>)
              IN OperandValue(sides[1], row) = OperandValue(sides[2], row)

\* the rows of the table one by one (a row may be stored more than once)
Copies(tbl) == UNION {{<<r, i>> : i \in 1..tbl[r]} : r \in DOMAIN tbl}

\* .limit(k) of a nearest-neighbour search: the k nearest of the candidates,
\* any of them when distances tie
Nearest(cands, k, qv) ==
    LET n == IF k < Cardinality(cands) THEN k ELSE Cardinality(cands)
        d(c) == CosineDistance(qv, EncodeContent(c[1].content))
    IN {S \in SUBSET cands :
           /\ Cardinality(S) = n
           /\ \A a \in S, b \in cands \ S : d(a) <= d(b)}

\* ExpenseDocumentVectorStore.search for one choice `found` of the rows the
\* table returns: the rows at or above the threshold, with their scores
SearchResults(found, qv, similarity_threshold) ==
    {[id |-> c[1].chunk_id,
      document_id |-> c[1].document_id,
      business_id |-> c[1].business_id,
      content |-> c[1].content,
      score |-> Similarity(CosineDistance(qv, EncodeContent(c[1].content))),
      copy |-> c[2]] :
        c \in {x \in found :
                 Similarity(CosineDistance(qv, EncodeContent(x[1].content)))
                     >= similarity_threshold}}

\* search_builder.where(clause).limit(k): the rows the table returns.  The
\* installed LanceDB decides whether the clause is applied before the
\* nearest k rows are taken or after; both are possible.
Found(tbl, clause, k, qv) ==
    Nearest({c \in Copies(tbl) : WhereClause(clause, c[1])}, k, qv)
        \cup {{c \in S : WhereClause(clause, c[1])} : S \in Nearest(Copies(tbl), k, qv)}

\* ExpenseDocumentVectorStore.search: the result sets it may return; a
\* clause the SQL engine rejects raises, and the except branch returns []
search(tbl, query, business_id, limit, filters, similarity_threshold) ==
    LET qv == EncodeQuery(query)
        clause == where_clause(business_id, filters)
    IN IF query = "" \/ ~WellFormed(clause)
       THEN {{}}
       ELSE {SearchResults(found, qv, similarity_threshold) :
                found \in Found(tbl, clause, limit, qv)}

max_limit == 50

\* ResultPostProcessor.deduplicate_results then [:limit] on results sorted
\* by score: one result per content, the best scores first
Deduplicated(raw) ==
    {D \in SUBSET raw :
        /\ \A r \in raw : \E d \in D : d.content = r.content /\ d.score >= r.score
        /\ \A d, e \in D : d.content = e.content => d = e}

Best(results, k) ==
    LET n == IF k < Cardinality(results) THEN k ELSE Cardinality(results)
    IN {S \in SUBSET results :
           /\ Cardinality(S) = n
           /\ \A a \in S, b \in results \ S : a.score >= b.score}

\* ExpenseDocumentSearchEngine.search: the result sets it may return.  The
\* filters drawn from the query replace the caller's of the same name.
engine_search(tbl, query, business_id, limit, filters, enhance) ==
    LET lim == IF limit < max_limit THEN limit ELSE max_limit
        extracted == extract_filters(enhance_query(query))
        enhanced == IF enhance THEN extracted.query ELSE query
        merged == IF enhance /\ extracted.filters.category # None
                  THEN extracted.filters ELSE filters
    IN IF query = ""
       THEN {{}}
       ELSE UNION {UNION {Best(D, lim) : D \in Deduplicated(raw)} :
                      raw \in search(tbl, enhanced, business_id, lim * 2, merged,
                                     engine_similarity_threshold)}

(***************************************************************************)
(* The HTTP facade (main.py)                                               *)
(***************************************************************************)
\* uuid4-based job id made by handle_index_document; no indexer job has it
FacadeJobId(t) == <<t, "uuid4">>

\* handle_index_document.  request: the JSON body, with drive_bytes the
\* bytes behind drive_url; env: whether the download succeeds, the name of
\* the temporary file, and what process_job needs.
handle_index_document(st, request, env) ==
    LET job_id == FacadeJobId(st.now)
        written == [st EXCEPT !.files[env.temp_path] = request.drive_bytes]
        added == add_document(written, env.temp_path, request.business_id,
                              request.document_id, request.metadata, 1)
        done == process_next_job(added.st, env)
        unlink(x) == [x EXCEPT !.files[env.temp_path] = "missing"]
    IN IF request.business_id = "" \/ request.document_id = NoDoc
       THEN [st |-> st,
             response |-> [http |-> 400, job_id |-> <<>>, status |-> None,
                           chunks_created |-> 0]]
       ELSE IF ~env.download_ok
       THEN [st |-> st,
             response |-> [http |-> 500, job_id |-> job_id, status |-> "failed",
                           chunks_created |-> 0]]
       ELSE IF added.raised # None
       THEN [st |-> unlink(added.st),
             response |-> [http |-> 500, job_id |-> job_id, status |-> "failed",
                           chunks_created |-> 0]]
       ELSE [st |-> unlink(done.st),
             response |-> [http |-> 200, job_id |-> job_id, status |-> "completed",
                           chunks_created |-> done.result.chunks_created]]

(***************************************************************************)
(* The indexer and its queue                                               *)
(***************************************************************************)
\* one argument for process_job per job of a batch
Envs(store) == [store_ok : store, dur : {0}]

\* the orders in which the workers of a pool can finish n jobs
Orders(n) ==
    {f \in [1..n -> 1..n] : \A a, b \in 1..n : f[a] = f[b] => a = b}

\* calls of add_document: documents with text and without, all priorities
Submissions ==
    [file_path : {"note", "blank"}, business_id : {"t1"}, document_id : {<<"d1">>},
     metadata : {NoMetadata}, priority : Priorities]

Init ==
    /\ now = 0
    /\ files = InitFiles
    /\ jobs = <<>>
    /\ job_queue = <<>>
    /\ active_jobs = EmptyDict
    /\ completed_jobs = EmptyDict
    /\ failed_jobs = <<>>
    /\ metrics = InitMetrics
    /\ indexer_attrs = {}
    /\ table = EmptyBag
    /\ document_cache = <<>>
    /\ last = [op |-> "init"]
    /\ pool = <<>>
    /\ engine_indexer = NewIndexer
    /\ chunking = NoCall
    /\ in_flight = <<>>

\* the state after a call that returned st
Apply(st) ==
    /\ now' = st.now
    /\ files' = st.files
    /\ jobs' = st.jobs
    /\ job_queue' = st.job_queue
    /\ active_jobs' = st.active_jobs
    /\ completed_jobs' = st.completed_jobs
    /\ failed_jobs' = st.failed_jobs
    /\ metrics' = st.metrics
    /\ indexer_attrs' = st.indexer_attrs
    /\ table' = st.table
    /\ document_cache' = st.document_cache
    /\ UNCHANGED <<in_flight, chunking, pool, engine_indexer>>

AddDocumentOf(subs, max) ==
    /\ Len(jobs) < max
    /\ \E s \in subs :
          LET r == add_document(State, s.file_path, s.business_id, s.document_id,
                                s.metadata, s.priority)
          IN /\ Apply(r.st)
             /\ last' = [op |-> "add_document"]

ProcessNextJobOf(store) ==
    \E env \in Envs(store) :
        LET r == process_next_job(State, env)
        IN /\ Apply(r.st)
           /\ last' = [op |-> "process_next_job"]

ProcessBatchOf(store) ==
    \E max_jobs \in 0..2, parallel \in BOOLEAN :
        LET limit == IF max_jobs = 0 THEN batch_size ELSE max_jobs
            n == IF limit < Len(job_queue) THEN limit ELSE Len(job_queue)
        IN \E order \in Orders(n), envs \in [1..n -> Envs(store)] :
              LET r == process_batch(State, max_jobs, parallel, order, envs)
              IN /\ Apply(r.st)
                 /\ last' = [op |-> "process_batch"]

RetryFailedJobsOf(cap) ==
    /\ \A x \in 1..Len(failed_jobs) : jobs[failed_jobs[x].job].requeues < cap
    /\ Apply(retry_failed_jobs(State))
    /\ last' = [op |-> "retry_failed_jobs"]

AddDocument == AddDocumentOf(Submissions, MaxJobs)

ProcessNextJob == ProcessNextJobOf({TRUE})

ProcessBatch == ProcessBatchOf({TRUE})

RetryFailedJobs == RetryFailedJobsOf(MaxRequeues)

ClearCompletedJobs ==
    /\ Apply(clear_completed_jobs(State))
    /\ last' = [op |-> "clear_completed_jobs"]

Next ==
    \/ AddDocument
    \/ ProcessNextJob
    \/ ProcessBatch
    \/ RetryFailedJobs
    \/ ClearCompletedJobs

Spec == Init /\ [][Next]_vars

(***************************************************************************)
(* Properties of the queue and of the job life cycle                       *)
(***************************************************************************)
\* the jobs waiting, first by priority and within one priority by arrival
QueueOrdered ==
    \A a, b \in 1..Len(job_queue) :
        a < b =>
            \/ jobs[job_queue[a]].priority < jobs[job_queue[b]].priority
            \/ /\ jobs[job_queue[a]].priority = jobs[job_queue[b]].priority
               /\ jobs[job_queue[a]].enq < jobs[job_queue[b]].enq

\* a step that shortens the queue takes its jobs from the front
TakenFromFront ==
    Len(job_queue') < Len(job_queue) =>
        job_queue' = SubSeq(job_queue, Len(job_queue) - Len(job_queue') + 1,
                            Len(job_queue))

\* C3: after any sequence of add_document, retry_failed_jobs,
\* process_next_job and process_batch the pending queue is in order of
\* non-decreasing priority, jobs of one priority in order of arrival, and
\* every dequeue takes the front of the queue: the job of the lowest
\* priority value that has waited longest.
C3_QueueDiscipline == [](QueueOrdered) /\ [][TakenFromFront]_vars

\* a job that arrived later with a smaller priority value has been
\* dequeued while the earlier one still waits
C3_Witness ==
    \E a, b \in 1..Len(jobs) :
        /\ jobs[a].enq < jobs[b].enq
        /\ jobs[b].priority < jobs[a].priority
        /\ jobs[b].status \in {"completed", "failed"}
        /\ jobs[a].trail = <<"pending">>
        /\ \E x \in 1..Len(job_queue) : job_queue[x] = a

StatusMoves ==
    {<<"pending", "processing">>, <<"processing", "completed">>,
     <<"processing", "failed">>, <<"failed", "pending">>}

\* C4: the status of a job only ever moves pending -> processing,
\* processing -> completed, processing -> failed and failed -> pending;
\* in particular nothing follows completed.
C4_StatusMoves ==
    \A j \in 1..Len(jobs) :
        /\ jobs[j].trail[1] = "pending"
        /\ jobs[j].trail[Len(jobs[j].trail)] = jobs[j].status
        /\ \A i \in 1..(Len(jobs[j].trail) - 1) :
              <<jobs[j].trail[i], jobs[j].trail[i + 1]>> \in StatusMoves

\* one job completed, another failed, was retried and failed again
C4_Witness ==
    \E a, b \in 1..Len(jobs) :
        /\ jobs[a].status = "completed"
        /\ jobs[b].status = "failed"
        /\ jobs[b].requeues >= 1

\* get_queue_status: the sizes of the four collections and the metrics dict
get_queue_status(st) ==
    [pending_jobs |-> Len(st.job_queue),
     active_jobs |-> Cardinality(DOMAIN st.active_jobs),
     completed_jobs |-> Cardinality(DOMAIN st.completed_jobs),
     failed_jobs |-> Len(st.failed_jobs),
     total_jobs |-> Len(st.job_queue) + Cardinality(DOMAIN st.active_jobs)
                    + Cardinality(DOMAIN st.completed_jobs) + Len(st.failed_jobs),
     metrics |-> st.metrics]

\* C14: whenever at least one job is finished, the metrics reported by
\* get_queue_status satisfy success_rate = completed / (completed + failed)
\* for the completed and failed counts of the same snapshot, and
\* average_processing_time = total_processing_time / total_jobs_processed.
C14_MetricsConsistent ==
    LET status == get_queue_status(State)
        m == status.metrics
        finished == status.completed_jobs + status.failed_jobs
    IN finished > 0 =>
          /\ m.success_rate[1] * finished = status.completed_jobs * m.success_rate[2]
          /\ m.average_processing_time[1] * m.total_jobs_processed
                 = m.total_processing_time * m.average_processing_time[2]

(***************************************************************************)
(* Retries: the indexer with a vector store that may fail, and            *)
(* retry_failed_jobs called again and again                                *)
(***************************************************************************)
ProcessNextJobFlaky == ProcessNextJobOf(BOOLEAN)

RetryFailedJobsAgain == RetryFailedJobsOf(MaxRetryRounds)

NextRetry ==
    \/ AddDocument
    \/ ProcessNextJobFlaky
    \/ RetryFailedJobsAgain

SpecRetry == Init /\ [][NextRetry]_vars

\* C5: no job goes from failed back to pending more than max_retries
\* times; a job that was retried max_retries times and failed again stays
\* in failed_jobs at every later retry_failed_jobs.
C5_RetriesBounded ==
    \A j \in 1..Len(jobs) : jobs[j].requeues <= max_retries

\* the errors process_job raises for a document that can never be indexed
BadInputErrors ==
    {"No text content extracted from document", "No chunks created from document"}

\* C6: a job that failed because its document yielded no text or no chunks
\* is never put back in the queue: it stays failed.
C6_BadInputStaysFailed ==
    \A j \in 1..Len(jobs) :
        (\E i \in 1..Len(jobs[j].errors) : jobs[j].errors[i] \in BadInputErrors)
            => jobs[j].status = "failed"

(***************************************************************************)
(* The vector store and the search engine on their own: add_documents,    *)
(* delete_document and searches, by any tenant in any order               *)
(***************************************************************************)
\* documents handed to add_documents
StoreDocument(business_id, document_id, chunk_index, content, category) ==
    [id |-> ChunkId(document_id, chunk_index, content), business_id |-> business_id,
     document_id |-> document_id, content |-> content, chunk_index |-> chunk_index,
     category |-> category]

StoreDocuments ==
    {StoreDocument("t1", <<"d1">>, 0, 1, "food"),
     StoreDocument("t1", <<"d1">>, 1, 2, Absent),
     StoreDocument("t1", <<"d2">>, 0, BlankContent, Absent),
     StoreDocument("t2", <<"d2">>, 0, 1, Absent),
     StoreDocument("t2", <<"d2">>, 1, 2, "food"),
     StoreDocument("t2", <<"d1">>, 0, 1, Absent)}

StoreBatches ==
    {<<d>> : d \in StoreDocuments} \cup {<<d, e>> : d, e \in StoreDocuments}

Thresholds == {store_similarity_threshold, 50}

Filters == {NoFilters, [category |-> "food"], [category |-> Injected]}

StoreAddDocuments ==
    \E documents \in StoreBatches, store_ok \in BOOLEAN :
        LET r == add_documents(table, documents, store_ok)
        IN /\ TotalRows(table) + Len(documents) <= MaxRows
           /\ table' = r.table
           /\ last' = [op |-> "add_documents", ids |-> r.ids, raised |-> r.raised]
           /\ UNCHANGED <<in_flight, chunking, pool, engine_indexer, now, files, jobs, job_queue, active_jobs, completed_jobs,
                          failed_jobs, metrics, indexer_attrs, document_cache>>

StoreDeleteDocument ==
    \E document_id \in DocIds :
        /\ table' = delete_document(table, document_id)
        /\ last' = [op |-> "delete_document", document_id |-> document_id]
        /\ UNCHANGED <<in_flight, chunking, pool, engine_indexer, now, files, jobs, job_queue, active_jobs, completed_jobs,
                       failed_jobs, metrics, indexer_attrs, document_cache>>

StoreSearch ==
    \E query \in {"", "latte"}, business_id \in Tenants, limit \in 1..2,
       filters \in Filters, threshold \in Thresholds :
        \E results \in search(table, query, business_id, limit, filters, threshold) :
            /\ last' = [op |-> "search", business_id |-> business_id,
                        threshold |-> threshold, results |-> results]
            /\ UNCHANGED <<in_flight, chunking, pool, engine_indexer, now, files, jobs, job_queue, active_jobs, completed_jobs,
                           failed_jobs, metrics, indexer_attrs, table, document_cache>>

EngineSearch ==
    \E query \in Queries, business_id \in Tenants, limit \in 1..2,
       filters \in {NoFilters, [category |-> "food"]}, enhance \in BOOLEAN :
        \E results \in engine_search(table, query, business_id, limit, filters, enhance) :
            /\ last' = [op |-> "engine_search", business_id |-> business_id,
                        threshold |-> engine_similarity_threshold, results |-> results]
            /\ UNCHANGED <<in_flight, chunking, pool, engine_indexer, now, files, jobs, job_queue, active_jobs, completed_jobs,
                           failed_jobs, metrics, indexer_attrs, table, document_cache>>

\* the reads of the store by a caller that names no tenant
NoTenant == {None, ""}

StoreSearchWithoutTenant ==
    \E query \in {"latte"}, business_id \in NoTenant, limit \in 1..2 :
        \E results \in search(table, query, business_id, limit, NoFilters,
                              store_similarity_threshold) :
            /\ last' = [op |-> "read", call |-> "search", business_id |-> business_id,
                        raised |-> FALSE,
                        tenants |-> {r.business_id : r \in results}]
            /\ UNCHANGED <<in_flight, chunking, pool, engine_indexer, now, files, jobs, job_queue, active_jobs, completed_jobs,
                           failed_jobs, metrics, indexer_attrs, table, document_cache>>

StoreGetStats ==
    \E business_id \in Tenants \cup NoTenant :
        LET stats == get_stats(table, business_id)
        IN /\ last' = [op |-> "read", call |-> "get_stats", business_id |-> business_id,
                       raised |-> FALSE,
                       tenants |-> {c[1].business_id : c \in stats.scanned}]
           /\ UNCHANGED <<in_flight, chunking, pool, engine_indexer, now, files, jobs, job_queue, active_jobs, completed_jobs,
                          failed_jobs, metrics, indexer_attrs, table, document_cache>>

StoreGetDocumentChunks ==
    \E document_id \in DocIds :
        /\ last' = [op |-> "read", call |-> "get_document_chunks", business_id |-> None,
                    raised |-> FALSE,
                    tenants |-> {c[1].business_id :
                                   c \in get_document_chunks(table, document_id)}]
        /\ UNCHANGED <<in_flight, chunking, pool, engine_indexer, now, files, jobs, job_queue, active_jobs, completed_jobs,
                       failed_jobs, metrics, indexer_attrs, table, document_cache>>

NextStore ==
    \/ StoreAddDocuments
    \/ StoreDeleteDocument
    \/ StoreSearch
    \/ EngineSearch
    \/ StoreSearchWithoutTenant
    \/ StoreGetStats
    \/ StoreGetDocumentChunks

SpecStore == Init /\ [][NextStore]_vars

\* C1: whatever add_documents and delete_document calls came before, and
\* for whichever tenants, every row a search for tenant X with threshold T
\* returns has business_id X and a score of at least T.
C1_TenantAndThreshold ==
    last.op \in {"search", "engine_search"} =>
        \A r \in last.results :
            /\ r.business_id = last.business_id
            /\ r.score >= last.threshold

\* C11: a read of the store that names no tenant (business_id absent, None
\* or empty) is answered with an error and never reads rows of more than
\* one tenant; for search and for every other read.
C11_TenantlessReadsRejected ==
    (last.op = "read" /\ last.business_id \in NoTenant) =>
        /\ last.raised
        /\ Cardinality(last.tenants) <= 1

\* what the code does keep: no returned row scores below the threshold
ScoreAtLeastThreshold ==
    last.op \in {"search", "engine_search"} =>
        \A r \in last.results : r.score >= last.threshold

(***************************************************************************)
(* The HTTP facade: POST /index requests against the facade's indexer     *)
(***************************************************************************)
\* caller metadata: none, the hash of the bytes as the backend route adds
\* it, or one key that meets a name the pipeline uses
RequestMetadata(drive_bytes) ==
    {NoMetadata,
     [NoMetadata EXCEPT !.document_hash = sha256(drive_bytes)],
     [NoMetadata EXCEPT !.business_id = "t2"]}

Requests ==
    UNION {[drive_bytes : {b}, business_id : Tenants \cup {""},
            document_id : {<<"d1">>}, metadata : RequestMetadata(b)] :
               b \in {"receipt", "blank"}}

FacadeEnvs ==
    [download_ok : BOOLEAN, temp_path : TempPaths, store_ok : BOOLEAN, dur : {0}]

HandleIndexDocumentOf(requests, envs) ==
    /\ Len(jobs) < MaxRequests
    /\ \E request \in requests, env \in envs :
          LET r == handle_index_document(State, request, env)
          IN /\ files[env.temp_path] = "missing"
             /\ Apply(r.st)
             /\ last' = [op |-> "index", request |-> request, response |-> r.response,
                         created |-> SubSeq(r.st.jobs, Len(jobs) + 1, Len(r.st.jobs))]

HandleIndexDocument == HandleIndexDocumentOf(Requests, FacadeEnvs)

NextService == HandleIndexDocument

SpecService == Init /\ [][NextService]_vars

\* C2: every row process_job hands to the vector store carries the
\* business_id and the document_id of its job, whatever the caller's
\* metadata mapping holds.
C2_RowsCarryJobIdentity ==
    \A r \in DOMAIN table :
        \E j \in 1..Len(jobs) :
            /\ jobs[j].status = "completed"
            /\ r.business_id = jobs[j].business_id
            /\ r.document_id = jobs[j].document_id

\* C7: the same bytes submitted twice under one tenant within the cache TTL
\* are ingested once: no second job of that tenant and hash is enqueued
\* and processed (so the tenant's rows do not grow).
C7_OneIngestion ==
    \A a, b \in 1..Len(jobs) :
        (/\ a < b
         /\ jobs[a].business_id = jobs[b].business_id
         /\ jobs[a].metadata.document_hash # Absent
         /\ jobs[a].metadata.document_hash = jobs[b].metadata.document_hash
         /\ jobs[a].status = "completed"
         /\ jobs[b].created_at - jobs[a].completed_at < cache_ttl)
            => FALSE

\* C10: a completed job has chunks_created >= 1 and the vector store holds
\* exactly chunks_created rows of the job's document_id, also when a
\* document_id is submitted and indexed more than once.
C10_RowsMatchChunks ==
    \A j \in 1..Len(jobs) :
        jobs[j].status = "completed" =>
            /\ jobs[j].chunks_created >= 1
            /\ RowsOfDocument(table, jobs[j].document_id) = jobs[j].chunks_created

(***************************************************************************)
(* The search engine with the indexer it constructs, and its cache        *)
(***************************************************************************)
\* ExpenseDocumentSearchEngine.__init__ sets _search_engine_ref on its indexer
InitEngine ==
    /\ now = 0
    /\ files = InitFiles
    /\ jobs = <<>>
    /\ job_queue = <<>>
    /\ active_jobs = EmptyDict
    /\ completed_jobs = EmptyDict
    /\ failed_jobs = <<>>
    /\ metrics = InitMetrics
    /\ indexer_attrs = {"_search_engine_ref"}
    /\ table = EmptyBag
    /\ document_cache = <<>>
    /\ last = [op |-> "init"]
    /\ pool = <<>>
    /\ engine_indexer = NewIndexer
    /\ chunking = NoCall
    /\ in_flight = <<>>

HashedSubmissions ==
    UNION {[file_path : {b}, business_id : Tenants, document_id : DocIds,
            metadata : {NoMetadata, [NoMetadata EXCEPT !.document_hash = sha256(b)]},
            priority : {1}] : b \in {"receipt", "note"}}

AddDocumentHashed == AddDocumentOf(HashedSubmissions, MaxRequests)

\* engine.cache_document_result, called with the result of a completed job
\* whose rows are in the store
CacheDocumentResult ==
    \E j \in 1..Len(jobs) :
        /\ jobs[j].status = "completed"
        /\ jobs[j].metadata.document_hash # Absent
        /\ RowsOfDocument(table, jobs[j].document_id) >= 1
        /\ document_cache' =
               cache_document_result(document_cache, jobs[j].metadata.document_hash,
                                     jobs[j].business_id,
                                     CompletedResult(jobs[j], TRUE), now)
        /\ last' = [op |-> "cache_document_result"]
        /\ UNCHANGED <<in_flight, chunking, pool, engine_indexer, now, files, jobs, job_queue, active_jobs, completed_jobs,
                       failed_jobs, metrics, indexer_attrs, table>>

\* engine.delete_document
DeleteDocument ==
    \E document_id \in DocIds :
        /\ table' = delete_document(table, document_id)
        /\ last' = [op |-> "delete_document"]
        /\ UNCHANGED <<in_flight, chunking, pool, engine_indexer, now, files, jobs, job_queue, active_jobs, completed_jobs,
                       failed_jobs, metrics, indexer_attrs, document_cache>>

NextCache ==
    \/ AddDocumentHashed
    \/ ProcessNextJobFlaky
    \/ CacheDocumentResult
    \/ DeleteDocument

SpecCache == InitEngine /\ [][NextCache]_vars

\* C8: once process_job has completed a job whose metadata carries a
\* document_hash, on the indexer of a search engine, the engine's cache
\* holds under (business_id, document_hash) an entry with the job's
\* job_id, document_id and chunks_created (unless a later job of the same
\* tenant and hash took its place).
C8_CompletedJobCached ==
    \A j \in 1..Len(jobs) :
        (/\ jobs[j].status = "completed"
         /\ jobs[j].metadata.document_hash # Absent
         /\ \A o \in 1..Len(jobs) :
               (/\ o # j
                /\ jobs[o].business_id = jobs[j].business_id
                /\ jobs[o].metadata.document_hash = jobs[j].metadata.document_hash)
                   => jobs[o].status # "completed")
            => \E i \in 1..Len(document_cache) :
                  /\ document_cache[i].key =
                         CacheKey(jobs[j].business_id, jobs[j].metadata.document_hash)
                  /\ document_cache[i].entry.job_id = jobs[j].job_id
                  /\ document_cache[i].entry.document_id = jobs[j].document_id
                  /\ document_cache[i].entry.chunks_created = jobs[j].chunks_created

\* C9: every entry check_document_cache returns within the TTL names a
\* document that has at least one row in the vector store; none names a
\* document that delete_document removed.
C9_CacheCoherent ==
    \A business_id \in Tenants, b \in Bytes :
        LET found == check_document_cache(document_cache, sha256(b), business_id, now)
        IN found.hit => RowsOfDocument(table, found.entry[1].document_id) >= 1

(***************************************************************************)
(* The engine's cache under a moving clock                                 *)
(***************************************************************************)
\* seconds of clock followed from the start of a behaviour
MaxElapsed == 3602

\* the SHA256 digest of the i-th document
Digest(i) == "sha256 of document " \o ToString(i)

\* the cache item cache_document_result stores at time t for the i-th
\* document of tenant t1
CachedItem(i, t) ==
    [key |-> CacheKey("t1", Digest(i)),
     entry |-> [job_id |-> JobId(i, "receipt"), document_id |-> <<"d1">>,
                chunks_created |-> 2, processing_time |-> 0,
                cached_at |-> t, document_hash |-> Digest(i)]]

\* the cache after the results of n different documents were cached: one
\* each second ("spread"); the same, and then the first document's result
\* cached again at second n ("refreshed": the dict keeps the key's place);
\* all within one reading n of the clock ("tied")
FilledCache(n, kind) ==
    [i \in 1..n |-> CachedItem(i, CASE kind = "spread" -> i
                                    [] kind = "refreshed" -> IF i = 1 THEN n ELSE i
                                    [] kind = "tied" -> n)]

StartTime == cache_max_entries

InitClock ==
    /\ now = StartTime
    /\ files = InitFiles
    /\ jobs = <<>>
    /\ job_queue = <<>>
    /\ active_jobs = EmptyDict
    /\ completed_jobs = EmptyDict
    /\ failed_jobs = <<>>
    /\ metrics = InitMetrics
    /\ indexer_attrs = {"_search_engine_ref"}
    /\ table = EmptyBag
    /\ document_cache \in {FilledCache(n, kind) :
                              n \in {cache_max_entries - 1, cache_max_entries},
                              kind \in {"spread", "refreshed", "tied"}}
    /\ last = [op |-> "init"]
    /\ pool = <<>>
    /\ engine_indexer = NewIndexer
    /\ chunking = NoCall
    /\ in_flight = <<>>

\* datetime.now() between two calls: the clock moves on
Tick ==
    \E d \in {cache_ttl \div 2 - 1, cache_ttl \div 2, cache_ttl \div 2 + 1} :
        /\ now + d <= StartTime + MaxElapsed
        /\ now' = now + d
        /\ last' = [op |-> "tick"]
        /\ UNCHANGED <<in_flight, chunking, pool, engine_indexer, files, jobs, job_queue, active_jobs, completed_jobs,
                       failed_jobs, metrics, indexer_attrs, table, document_cache>>

\* engine.cache_document_result for a document cached before or a new one
CacheDocumentResultAt ==
    \E i \in {1, cache_max_entries + 1} :
        /\ document_cache' =
               cache_document_result(document_cache, Digest(i), "t1",
                                     [NoResult EXCEPT !.job_id = JobId(i, "receipt"),
                                                      !.status = "completed",
                                                      !.document_id = <<"d1">>,
                                                      !.chunks_created = 2], now)
        /\ last' = [op |-> "cache_document_result", key |-> CacheKey("t1", Digest(i))]
        /\ UNCHANGED <<in_flight, chunking, pool, engine_indexer, now, files, jobs, job_queue, active_jobs, completed_jobs,
                       failed_jobs, metrics, indexer_attrs, table>>

\* engine.check_document_cache
CheckDocumentCache ==
    \E i \in {1, cache_max_entries}, business_id \in Tenants :
        LET found == check_document_cache(document_cache, Digest(i), business_id, now)
        IN /\ document_cache' = found.cache
           /\ last' = [op |-> "check_document_cache",
                       key |-> CacheKey(business_id, Digest(i)),
                       returned |-> found.entry]
           /\ UNCHANGED <<in_flight, chunking, pool, engine_indexer, now, files, jobs, job_queue, active_jobs, completed_jobs,
                          failed_jobs, metrics, indexer_attrs, table>>

NextClock ==
    \/ Tick
    \/ CacheDocumentResultAt
    \/ CheckDocumentCache

SpecClock == InitClock /\ [][NextClock]_vars

\* the age of the entry under key k, in seconds
Age(cache, k, t) == t - cache[CacheGet(cache, k)].entry.cached_at

Without(cache, k) == SelectSeq(cache, LAMBDA x : x.key # k)

CheckedWithinTTL ==
    last'.op = "check_document_cache" =>
        LET k == last'.key
        IN IF k \in CacheKeys(document_cache)
           THEN IF Age(document_cache, k, now) < cache_ttl
                THEN /\ last'.returned = <<document_cache[CacheGet(document_cache, k)].entry>>
                     /\ document_cache' = document_cache
                ELSE /\ last'.returned = <<>>
                     /\ document_cache' = Without(document_cache, k)
           ELSE /\ last'.returned = <<>>
                /\ document_cache' = document_cache

\* C12: check_document_cache returns an entry only while its age is below
\* cache_ttl (3600 s); a lookup of an entry whose age is at or above the TTL
\* returns None and removes that entry (and no other) from the cache; a
\* lookup of an absent key returns None and leaves the cache unchanged.
C12_CacheTTL == [][CheckedWithinTTL]_vars

\* an entry of age exactly cache_ttl was looked up, not returned, and removed
C12_Witness ==
    /\ last.op = "check_document_cache"
    /\ last.key = CacheKey("t1", Digest(cache_max_entries))
    /\ last.returned = <<>>
    /\ last.key \notin CacheKeys(document_cache)
    /\ now = cache_max_entries + cache_ttl
    /\ Len(document_cache) = cache_max_entries - 1
    /\ document_cache[cache_max_entries - 1].entry.cached_at = cache_max_entries

CachedAtMost == Len(document_cache) <= cache_max_entries

TenOldestEvicted ==
    last'.op = "cache_document_result" =>
        LET k == last'.key
            held == CacheKeys(document_cache) \cup {k}
            kept == CacheKeys(document_cache')
            evicted == held \ kept
            cached_at(key) == IF key = k THEN now
                              ELSE document_cache[CacheGet(document_cache, key)].entry.cached_at
        IN /\ kept \subseteq held
           /\ IF Cardinality(held) > cache_max_entries
              THEN /\ Cardinality(evicted) = cache_evict_count
                   /\ k \in kept
                   /\ \A e \in evicted, r \in kept : cached_at(e) <= cached_at(r)
              ELSE evicted = {}

\* C13: after any sequence of cache_document_result calls the document cache
\* holds at most 100 entries; when an insert makes it exceed 100, exactly
\* ten entries are evicted, none of them cached later than an entry that
\* stays, and the entry just inserted stays.
C13_CacheBounded == [](CachedAtMost) /\ [][TenOldestEvicted]_vars

\* the 101st entry was inserted and ten were evicted; the first document,
\* cached again later than the ten, is still at the front
C13_Witness ==
    /\ last.op = "cache_document_result"
    /\ last.key = CacheKey("t1", Digest(cache_max_entries + 1))
    /\ Len(document_cache) = cache_max_entries + 1 - cache_evict_count
    /\ last.key \in CacheKeys(document_cache)
    /\ document_cache[1].key = CacheKey("t1", Digest(1))

(***************************************************************************)
(* process_batch on the worker pool: process_job on several threads        *)
(***************************************************************************)
PoolSubmissions ==
    [file_path : {"receipt", "note"}, business_id : {"t1"}, document_id : {<<"d1">>},
     metadata : {NoMetadata}, priority : {1}]

AddDocumentToPool == AddDocumentOf(PoolSubmissions, MaxJobs)

\* process_batch, parallel branch, up to executor.submit: the batch is popped
\* off the queue and each job is handed to a worker
SubmitBatch ==
    \E max_jobs \in {0, 1} :
        LET limit == IF max_jobs = 0 THEN batch_size ELSE max_jobs
            n == IF limit < Len(job_queue) THEN limit ELSE Len(job_queue)
        IN /\ pool = <<>>
           /\ n > 0
           /\ pool' = [w \in 1..n |-> [job |-> job_queue[w], at |-> "process_job",
                                       half |-> "load", loaded |-> 0]]
           /\ job_queue' = SubSeq(job_queue, n + 1, Len(job_queue))
           /\ last' = [op |-> "process_batch", returned |-> FALSE,
                       batch |-> SubSeq(job_queue, 1, n),
                       total_jobs_processed |-> metrics.total_jobs_processed,
                       total_chunks_created |-> metrics.total_chunks_created]
           /\ UNCHANGED <<in_flight, chunking, engine_indexer, now, files, jobs, active_jobs, completed_jobs, failed_jobs,
                          metrics, indexer_attrs, table, document_cache>>

\* a worker runs process_job up to the call of _update_metrics
WorkerProcessJob(w) ==
    \E env \in Envs(BOOLEAN) :
        /\ pool[w].at = "process_job"
        /\ \E one \in {process_job(State, pool[w].job, env)} :
           /\ now' = one.st.now
           /\ files' = one.st.files
           /\ jobs' = one.st.jobs
           /\ active_jobs' = one.st.active_jobs
           /\ completed_jobs' = one.st.completed_jobs
           /\ failed_jobs' = one.st.failed_jobs
           /\ table' = one.st.table
           /\ document_cache' = one.st.document_cache
           /\ pool' = [pool EXCEPT ![w].at = IF one.result.status = "completed"
                                             THEN "total_jobs_processed" ELSE "returned"]
           /\ UNCHANGED <<in_flight, chunking, engine_indexer, job_queue, metrics, indexer_attrs, last>>

\* the entries _update_metrics adds to, in the order of its statements, and
\* what it adds
Counters ==
    <<"total_jobs_processed", "total_documents_processed", "total_chunks_created",
      "total_processing_time">>

Added(counter, job) ==
    CASE counter = "total_jobs_processed" -> 1
      [] counter = "total_documents_processed" -> 1
      [] counter = "total_chunks_created" -> job.chunks_created
      [] counter = "total_processing_time" -> job.processing_time

\* self.metrics[counter] += x, first half: the entry is read
WorkerLoad(w) ==
    \E c \in 1..Len(Counters) :
        /\ pool[w].at = Counters[c]
        /\ pool[w].half = "load"
        /\ pool' = [pool EXCEPT ![w].half = "store",
                                ![w].loaded = metrics[Counters[c]]]
        /\ UNCHANGED <<in_flight, chunking, engine_indexer, now, files, jobs, job_queue, active_jobs, completed_jobs,
                       failed_jobs, metrics, indexer_attrs, table, document_cache, last>>

\* self.metrics[counter] += x, second half: the sum is stored
WorkerStore(w) ==
    \E c \in 1..Len(Counters) :
        /\ pool[w].at = Counters[c]
        /\ pool[w].half = "store"
        /\ metrics' = [metrics EXCEPT
                         ![Counters[c]] = pool[w].loaded + Added(Counters[c], jobs[pool[w].job])]
        /\ pool' = [pool EXCEPT ![w].at = IF c < Len(Counters) THEN Counters[c + 1]
                                          ELSE "last_processed",
                                ![w].half = "load"]
        /\ UNCHANGED <<in_flight, chunking, engine_indexer, now, files, jobs, job_queue, active_jobs, completed_jobs,
                       failed_jobs, indexer_attrs, table, document_cache, last>>

\* the rest of _update_metrics: last_processed, the average and the rate
WorkerRates(w) ==
    LET job == jobs[pool[w].job]
        finished == Cardinality(DOMAIN completed_jobs) + Len(failed_jobs)
    IN /\ pool[w].at = "last_processed"
       /\ metrics' = [metrics EXCEPT
                        !.last_processed = job.completed_at,
                        !.average_processing_time =
                            IF metrics.total_jobs_processed > 0
                            THEN <<metrics.total_processing_time,
                                   metrics.total_jobs_processed>>
                            ELSE @,
                        !.success_rate =
                            IF finished > 0
                            THEN <<Cardinality(DOMAIN completed_jobs), finished>>
                            ELSE @]
       /\ pool' = [pool EXCEPT ![w].at = "returned"]
       /\ UNCHANGED <<in_flight, chunking, engine_indexer, now, files, jobs, job_queue, active_jobs, completed_jobs,
                      failed_jobs, indexer_attrs, table, document_cache, last>>

Worker ==
    \E w \in 1..Len(pool) :
        \/ WorkerProcessJob(w)
        \/ WorkerLoad(w)
        \/ WorkerStore(w)
        \/ WorkerRates(w)

\* process_batch returns once every future has its result
ReturnBatch ==
    /\ pool # <<>>
    /\ \A w \in 1..Len(pool) : pool[w].at = "returned"
    /\ pool' = <<>>
    /\ last' = [last EXCEPT !.returned = TRUE]
    /\ UNCHANGED <<in_flight, chunking, engine_indexer, now, files, jobs, job_queue, active_jobs, completed_jobs,
                   failed_jobs, metrics, indexer_attrs, table, document_cache>>

NextPool ==
    \/ AddDocumentToPool
    \/ SubmitBatch
    \/ Worker
    \/ ReturnBatch

SpecPool == Init /\ [][NextPool]_vars

RECURSIVE ChunksCreated(_, _)
ChunksCreated(js, batch) ==
    IF batch = <<>> THEN 0
    ELSE js[Head(batch)].chunks_created + ChunksCreated(js, Tail(batch))

\* C15: when process_batch has run n jobs (of different job ids) on the
\* worker pool and all n succeeded, then, whatever the interleaving of the
\* workers, total_jobs_processed has grown by exactly n, total_chunks_created
\* by exactly the sum of the jobs' chunks_created, and completed_jobs holds
\* all n jobs.
C15_BatchCounted ==
    (/\ last.op = "process_batch"
     /\ last.returned
     /\ \A i \in 1..Len(last.batch) : jobs[last.batch[i]].status = "completed"
     /\ \A i, k \in 1..Len(last.batch) :
           i # k => jobs[last.batch[i]].job_id # jobs[last.batch[k]].job_id)
        => /\ metrics.total_jobs_processed = last.total_jobs_processed + Len(last.batch)
           /\ metrics.total_chunks_created =
                  last.total_chunks_created + ChunksCreated(jobs, last.batch)
           /\ \A i \in 1..Len(last.batch) :
                 /\ jobs[last.batch[i]].job_id \in DOMAIN completed_jobs
                 /\ completed_jobs[jobs[last.batch[i]].job_id] = last.batch[i]

(***************************************************************************)
(* What POST /index answers                                                *)
(***************************************************************************)
\* C16: POST /index answers 200 with status completed only when the job
\* created for the submitted document reached completed in the indexer;
\* whenever fetching or processing the document fails, the response is 500
\* with status failed.
C16_ResponseTellsOutcome ==
    (last.op = "index" /\ last.response.http # 400) =>
        /\ (last.response.http = 200 /\ last.response.status = "completed")
              => /\ last.created # <<>>
                 /\ jobs[Len(jobs)].status = "completed"
        /\ (last.created = <<>> \/ jobs[Len(jobs)].status = "failed")
              => /\ last.response.http = 500
                 /\ last.response.status = "failed"

\* C17: the job_id of every POST /index response is the identifier under
\* which the indexer tracks the job of that request: whenever a job was
\* created, get_job_status(job_id) returns that job's state.
C17_JobIdTracksJob ==
    (last.op = "index" /\ last.created # <<>>) =>
        /\ last.response.job_id = jobs[Len(jobs)].job_id
        /\ get_job_status(State, last.response.job_id) = <<jobs[Len(jobs)]>>

(***************************************************************************)
(* GET /stats and GET /health                                              *)
(***************************************************************************)
\* ExpenseDocumentSearchEngine.get_stats: the store's statistics, the queue
\* status of the engine's own indexer, and the size of the cache
engine_get_stats(st, own_indexer, business_id) ==
    LET stats == get_stats(st.table, business_id)
    IN [vector_store |-> [total_chunks |-> stats.total_chunks,
                          unique_documents |-> stats.unique_documents,
                          unique_businesses |-> stats.unique_businesses],
        document_indexer |-> get_queue_status(own_indexer),
        document_cache |-> [entries |-> Len(st.document_cache),
                            ttl_seconds |-> cache_ttl]]

\* handle_stats
handle_stats(st, own_indexer, business_id) ==
    [http |-> 200, stats |-> engine_get_stats(st, own_indexer, business_id)]

\* ExpenseDocumentIndexer.health_check: an issue for every component that
\* is not healthy
indexer_health_check(processor, store, chunker) ==
    LET issues == {c \in {processor, store, chunker} : c # "healthy"}
    IN IF issues = {} THEN "healthy"
       ELSE IF "unhealthy" \notin issues THEN "warning"
       ELSE "unhealthy"

\* ExpenseDocumentSearchEngine.health_check
engine_health_check(store, own_indexer_health, search_ok) ==
    IF ~search_ok THEN "unhealthy"
    ELSE IF store # "healthy" \/ own_indexer_health # "healthy" THEN "warning"
    ELSE "healthy"

\* handle_health_check: env is the health of the components at the call
handle_health_check(env) ==
    LET engine_health == engine_health_check(
                             env.engine_store,
                             indexer_health_check(env.processor, env.engine_store,
                                                  env.chunker),
                             env.search_ok)
        indexer_health == indexer_health_check(env.processor, env.indexer_store,
                                               env.chunker)
        overall_status == IF engine_health # "healthy" \/ indexer_health # "healthy"
                          THEN "unhealthy" ELSE "healthy"
    IN IF env.raises
       THEN [http |-> 500, status |-> "unhealthy", search_engine |-> None,
             document_indexer |-> None]
       ELSE [http |-> 200, status |-> overall_status, search_engine |-> engine_health,
             document_indexer |-> indexer_health]

\* what the health checks of the components can report
HealthEnvs ==
    [processor : {"healthy", "warning", "unhealthy"},
     chunker : {"healthy", "warning", "unhealthy"},
     engine_store : {"healthy", "unhealthy"},
     indexer_store : {"healthy", "unhealthy"},
     search_ok : BOOLEAN, raises : BOOLEAN]

StatusRequests ==
    [drive_bytes : {"receipt", "blank"}, business_id : {"t1"},
     document_id : {<<"d1">>}, metadata : {NoMetadata}]

StatusEnvs == [download_ok : BOOLEAN, temp_path : {"tmp1"}, store_ok : BOOLEAN, dur : {0}]

HandleIndexDocumentFirst == HandleIndexDocumentOf(StatusRequests, StatusEnvs)

HandleStats ==
    \E business_id \in {None, "t1"} :
        /\ last' = [op |-> "stats",
                    response |-> handle_stats(State, engine_indexer, business_id)]
        /\ UNCHANGED <<in_flight, chunking, pool, engine_indexer, now, files, jobs, job_queue, active_jobs,
                       completed_jobs, failed_jobs, metrics, indexer_attrs, table,
                       document_cache>>

HandleHealthCheck ==
    \E env \in HealthEnvs :
        /\ last' = [op |-> "health", response |-> handle_health_check(env)]
        /\ UNCHANGED <<in_flight, chunking, pool, engine_indexer, now, files, jobs, job_queue, active_jobs,
                       completed_jobs, failed_jobs, metrics, indexer_attrs, table,
                       document_cache>>

NextStatus ==
    \/ HandleIndexDocumentFirst
    \/ HandleStats
    \/ HandleHealthCheck

SpecStatus == Init /\ [][NextStatus]_vars

\* C18: GET /stats returns the queue snapshot of the indexer that serves
\* POST /index: a job that an /index request completed (or failed) is
\* counted in document_indexer.completed_jobs (or failed_jobs) of the next
\* /stats response.
C18_StatsOfServingIndexer ==
    last.op = "stats" =>
        /\ last.response.stats.document_indexer.completed_jobs
              = Cardinality(DOMAIN completed_jobs)
        /\ last.response.stats.document_indexer.failed_jobs = Len(failed_jobs)

\* C19: GET /health reports healthy only when both the search engine and
\* the document indexer report healthy, reports degraded when a component
\* is degraded and none is unhealthy, and answers HTTP 503 exactly when the
\* reported status is unhealthy, 200 otherwise.
C19_HealthStatus ==
    last.op = "health" =>
        LET r == last.response
            parts == {r.search_engine, r.document_indexer}
        IN /\ r.status = "healthy" => parts = {"healthy"}
           /\ ("warning" \in parts /\ "unhealthy" \notin parts /\ None \notin parts)
                 => r.status = "degraded"
           /\ r.http = 503 <=> r.status = "unhealthy"
           /\ r.http # 503 => r.http = 200

(***************************************************************************)
(* Documents without text, of every type                                   *)
(***************************************************************************)
TypedSubmissions ==
    {[file_path |-> "note", business_id |-> "t1", document_id |-> <<"d1">>,
      metadata |-> NoMetadata, priority |-> 1],
     [file_path |-> "blank", business_id |-> "t1", document_id |-> <<"d2">>,
      metadata |-> NoMetadata, priority |-> 1],
     [file_path |-> "scan", business_id |-> "t1", document_id |-> <<"d2">>,
      metadata |-> NoMetadata, priority |-> 1]}

AddDocumentOfAnyType == AddDocumentOf(TypedSubmissions, MaxJobs)

NextTypes ==
    \/ AddDocumentOfAnyType
    \/ ProcessNextJobFlaky
    \/ RetryFailedJobs

SpecTypes == Init /\ [][NextTypes]_vars

\* the body, or every page, is empty or whitespace-only
NoExtractableText(bytes) ==
    \/ bytes = "blank"
    \/ /\ PageTexts(bytes) # <<>>
       /\ \A i \in 1..Len(PageTexts(bytes)) : PageTexts(bytes)[i] = ""

\* C20: a job whose document yields no extractable text (the body, or every
\* page, is empty or whitespace-only) ends in status failed and writes no
\* row to the vector store, for every supported document type, PDF included.
C20_NoTextNoRows ==
    \A j \in 1..Len(jobs) :
        (/\ NoExtractableText(files[jobs[j].file_path])
         /\ jobs[j].status \in {"completed", "failed"})
            => /\ jobs[j].status = "failed"
               /\ jobs[j].chunks_created = 0
               /\ RowsOfDocument(table, jobs[j].document_id) = 0

(***************************************************************************)
(* Progress of a job                                                       *)
(***************************************************************************)
\* the percentages process_job reports in each stage
StagePercentages(stage) ==
    CASE stage = "parsing"   -> {10, 30}
      [] stage = "chunking"  -> {40, 60}
      [] stage = "indexing"  -> {80}
      [] stage = "completed" -> {100}
      [] OTHER               -> {0}

\* C21: in every reachable state a job's progress agrees with its status: a
\* pending job (freshly submitted or re-queued by retry_failed_jobs) has
\* percentage 0, a completed job has percentage 100 in stage completed, and
\* the percentage is one of those of the stage the job is in.
C21_ProgressAgrees ==
    \A j \in 1..Len(jobs) :
        /\ jobs[j].status = "pending" => jobs[j].progress.percentage = 0
        /\ jobs[j].status = "completed"
              => /\ jobs[j].progress.percentage = 100
                 /\ jobs[j].progress.stage = "completed"
        /\ jobs[j].progress.percentage \in StagePercentages(jobs[j].progress.stage)

\* C22: every successful add_document returns a job_id different from the
\* job_id of every other job the indexer has created, so that no two jobs
\* are filed under one key of active_jobs, completed_jobs or failed_jobs.
C22_JobIdsDiffer ==
    \A i, j \in 1..Len(jobs) : i # j => jobs[i].job_id # jobs[j].job_id

(***************************************************************************)
(* Chunking strategies: FixedSizeChunking                                  *)
(***************************************************************************)
MaxTextLen == 4       \* characters of a text handed to a chunking strategy
MaxChunkSize == 2     \* chunk_size of FixedSizeChunking

Min(a, b) == IF a <= b THEN a ELSE b

Max(a, b) == IF a >= b THEN a ELSE b

\* the characters of the texts: a letter, a sentence ending and whitespace
Alphabet == {"a", ".", " "}

Texts == UNION {[1..n -> Alphabet] : n \in 0..MaxTextLen}

IsSpace(c) == c = " "

\* str.strip(): the text without its leading and trailing whitespace
Strip(text) ==
    LET solid == {i \in 1..Len(text) : ~IsSpace(text[i])}
    IN  IF solid = {} THEN <<>>
        ELSE SubSeq(text, CHOOSE i \in solid : \A k \in solid : i <= k,
                          CHOOSE i \in solid : \A k \in solid : i >= k)

SentenceLookaround == 100

\* the ends, as offsets into text, of the matches of [.!?]\s+ in
\* text[search_start:search_stop]
SentenceEndings(text, search_start, search_stop) ==
    LET stop == Min(search_stop, Len(text))
    IN  {e \in (search_start + 2)..stop :
            \E i \in (search_start + 1)..(e - 1) :
                /\ text[i] = "."
                /\ \A k \in (i + 1)..e : IsSpace(text[k])
                /\ e = stop \/ ~IsSpace(text[e + 1])}

\* min(sentence_endings, key=lambda x: abs(x - target_pos)): the first of
\* the nearest ones
BestEnd(sentence_endings, target_pos) ==
    LET dist(x) == IF x >= target_pos THEN x - target_pos ELSE target_pos - x
        nearest == {x \in sentence_endings :
                       \A y \in sentence_endings : dist(x) <= dist(y)}
    IN  CHOOSE x \in nearest : \A y \in nearest : x <= y

\* the end of the window that starts at c.start
WindowEnd(c) ==
    LET end == Min(c.start + c.chunk_size, Len(c.text))
        search_start == Max(c.start + c.chunk_size - SentenceLookaround,
                            c.start + (c.chunk_size \div 2))
        sentence_endings ==
            SentenceEndings(c.text, search_start, end + SentenceLookaround)
    IN  IF c.preserve_sentences /\ end < Len(c.text) /\ sentence_endings # {}
        THEN Min(BestEnd(sentence_endings, c.start + c.chunk_size), Len(c.text))
        ELSE end

\* start + chunk_size - overlap, floored at the beginning of the text
SlideByStride(start, chunk_size, overlap, end) ==
    Max(start + chunk_size - overlap, 0)

\* the start of the next window
NextStart(start, chunk_size, overlap, end) ==
    Max(start + chunk_size - overlap, end)

FixedSizeCalls ==
    {[strategy |-> "fixed_size", at |-> "called", text |-> t,
      chunk_size |-> cs, overlap |-> ov, preserve_sentences |-> ps,
      start |-> 0, chunk_index |-> 0, chunks |-> <<>>] :
        t \in Texts, cs \in 1..MaxChunkSize, ov \in 0..(MaxChunkSize + 1),
        ps \in BOOLEAN}

IndexerIdle ==
    /\ now = 0
    /\ files = InitFiles
    /\ jobs = <<>>
    /\ job_queue = <<>>
    /\ active_jobs = EmptyDict
    /\ completed_jobs = EmptyDict
    /\ failed_jobs = <<>>
    /\ metrics = InitMetrics
    /\ indexer_attrs = {}
    /\ table = EmptyBag
    /\ document_cache = <<>>
    /\ last = [op |-> "init"]
    /\ pool = <<>>
    /\ engine_indexer = NewIndexer
    /\ in_flight = <<>>

OnlyChunking ==
    UNCHANGED <<now, files, jobs, job_queue, active_jobs, completed_jobs,
                failed_jobs, metrics, indexer_attrs, table, document_cache,
                last, pool, engine_indexer, in_flight>>

InitFixedSize ==
    /\ IndexerIdle
    /\ chunking \in FixedSizeCalls

\* chunk_document up to the loop: a text without content returns no chunks
FixedSizeEnter ==
    /\ chunking.strategy = "fixed_size"
    /\ chunking.at = "called"
    /\ chunking' = [chunking EXCEPT
           !.at = IF Strip(chunking.text) = <<>> THEN "returned" ELSE "loop"]
    /\ OnlyChunking

\* one iteration of the while loop
FixedSizeStep(c) ==
    LET end == WindowEnd(c)
        chunk_content == Strip(SubSeq(c.text, c.start + 1, end))
        start == NextStart(c.start, c.chunk_size, c.overlap, end)
    IN  [c EXCEPT
            !.chunks = IF chunk_content # <<>>
                       THEN Append(@, [content |-> chunk_content,
                                       chunk_index |-> c.chunk_index,
                                       start_char |-> c.start,
                                       end_char |-> end])
                       ELSE @,
            !.chunk_index = IF chunk_content # <<>> THEN @ + 1 ELSE @,
            !.start = start,
            !.at = IF start >= Len(c.text) THEN "returned" ELSE "loop"]

FixedSizeIteration ==
    /\ chunking.strategy = "fixed_size"
    /\ chunking.at = "loop"
    /\ chunking' = FixedSizeStep(chunking)
    /\ OnlyChunking

NextFixedSize ==
    \/ FixedSizeEnter
    \/ FixedSizeIteration

SpecFixedSize == InitFixedSize /\ [][NextFixedSize]_vars

\* the loop is scheduled until it leaves: nothing else runs in the call
SpecFixedSizeFair == SpecFixedSize /\ WF_vars(NextFixedSize)

\* C23: with sentence preservation off and 0 <= overlap < chunk_size, the
\* start of each window after the first is the start of the window before
\* it plus chunk_size - overlap, so that consecutive windows share overlap
\* characters of the text.
C23_StrideIsSizeLessOverlap ==
    [][(/\ FixedSizeIteration
        /\ ~chunking.preserve_sentences
        /\ chunking.overlap < chunking.chunk_size
        /\ chunking'.at = "loop")
          => chunking'.start
                = chunking.start + chunking.chunk_size - chunking.overlap]_vars

\* C30: chunk_document of FixedSizeChunking terminates on every text for
\* every chunk_size >= 1 and every overlap >= 0, overlap >= chunk_size
\* included, with and without sentence preservation: each iteration of the
\* loop moves the window start forward, and the call returns.
C30_FixedSizeTerminates ==
    /\ [][FixedSizeIteration => chunking'.start > chunking.start]_vars
    /\ <>(chunking.at = "returned")

\* a call with overlap >= chunk_size has gone round the loop twice and returned
C30_Witness ==
    /\ chunking.strategy = "fixed_size"
    /\ chunking.at = "returned"
    /\ chunking.overlap >= chunking.chunk_size
    /\ chunking.preserve_sentences
    /\ Len(chunking.chunks) >= 2

(***************************************************************************)
(* Chunking strategies: HierarchicalChunking                               *)
(***************************************************************************)
RECURSIVE FixedSizeLoop(_)
FixedSizeLoop(c) ==
    IF c.at = "loop" THEN FixedSizeLoop(FixedSizeStep(c)) ELSE c

\* the chunks FixedSizeChunking(chunk_size, overlap, preserve_sentences)
\* returns for text
FixedSizeChunks(text, chunk_size, overlap, preserve_sentences) ==
    IF Strip(text) = <<>> THEN <<>>
    ELSE FixedSizeLoop([strategy |-> "fixed_size", at |-> "loop",
                        text |-> text, chunk_size |-> chunk_size,
                        overlap |-> overlap,
                        preserve_sentences |-> preserve_sentences,
                        start |-> 0, chunk_index |-> 0,
                        chunks |-> <<>>]).chunks

HierarchicalCalls ==
    {[strategy |-> "hierarchical", at |-> "called", text |-> t,
      large_chunk_size |-> large, small_chunk_size |-> small,
      overlap |-> ov, parent_chunks |-> <<>>, chunks |-> <<>>] :
        t \in Texts, large \in 1..(MaxChunkSize + 1),
        small \in 1..MaxChunkSize, ov \in 0..MaxChunkSize}

\* chunk_document up to the loop over the parent chunks
HierarchicalEnter ==
    /\ chunking.strategy = "hierarchical"
    /\ chunking.at = "called"
    /\ LET c == chunking
           parent_chunks ==
               FixedSizeChunks(c.text, c.large_chunk_size, c.overlap, TRUE)
       IN  chunking' = [c EXCEPT
               !.parent_chunks = parent_chunks,
               !.at = IF parent_chunks = <<>> THEN "returned" ELSE "loop"]
    /\ OnlyChunking

\* one iteration of the loop: the parent chunk, then its child chunks
HierarchicalParent ==
    /\ chunking.strategy = "hierarchical"
    /\ chunking.at = "loop"
    /\ LET c == chunking
           parent_chunk == Head(c.parent_chunks)
           child_chunks ==
               FixedSizeChunks(parent_chunk.content, c.small_chunk_size,
                               c.overlap \div 2, TRUE)
       IN  chunking' = [c EXCEPT
               !.chunks = (@ \o <<parent_chunk>>) \o child_chunks,
               !.parent_chunks = Tail(@),
               !.at = IF Tail(c.parent_chunks) = <<>> THEN "returned"
                      ELSE "loop"]
    /\ OnlyChunking

(***************************************************************************)
(* Chunking strategies: SemanticChunking                                   *)
(***************************************************************************)
MaxSentences == 3     \* sentences of a text handed to SemanticChunking
MaxSentenceLen == 3   \* characters of one sentence

\* what the embedding model returns for a sentence
SentenceEmbeddings == {<<1, 0>>, <<0, 1>>}

semantic_similarity_threshold == <<7, 10>>

Sentence(n) == [k \in 1..n |-> "a"]

\* ' '.join(sentences)
RECURSIVE JoinWithSpace(_)
JoinWithSpace(sentences) ==
    IF sentences = <<>> THEN <<>>
    ELSE IF Len(sentences) = 1 THEN sentences[1]
    ELSE (sentences[1] \o <<" ">>) \o JoinWithSpace(Tail(sentences))

\* the sum of the vectors; np.mean differs from it by a positive factor,
\* which the cosine does not see
RECURSIVE SumOfEmbeddings(_)
SumOfEmbeddings(embeddings) ==
    IF embeddings = <<>> THEN <<0, 0>>
    ELSE LET rest == SumOfEmbeddings(Tail(embeddings))
         IN  <<embeddings[1][1] + rest[1], embeddings[1][2] + rest[2]>>

\* np.dot(a, b) / (norm(a) * norm(b)) < t, for vectors without negative
\* components and t = t[1] / t[2] > 0
CosineBelow(a, b, t) ==
    LET dot == a[1] * b[1] + a[2] * b[2]
        norms == (a[1] * a[1] + a[2] * a[2]) * (b[1] * b[1] + b[2] * b[2])
    IN  t[2] * t[2] * dot * dot < t[1] * t[1] * norms

\* similarity < self.similarity_threshold for the candidate sentence c.i
SimilarityBelowThreshold(c) ==
    CosineBelow(SumOfEmbeddings(c.current_chunk_embeddings),
                c.embeddings[c.i], semantic_similarity_threshold)

should_split(c) ==
    LET current_chunk_text == JoinWithSpace(c.current_chunk_sentences)
    IN  \/ SimilarityBelowThreshold(c)
        \/ Len((current_chunk_text \o <<" ">>) \o c.sentences[c.i])
              > c.max_chunk_size

\* the condition under which the loop closes the current group
ClosesGroup(c) ==
    /\ should_split(c)
    /\ Len(JoinWithSpace(c.current_chunk_sentences)) >= c.min_chunk_size

SemanticCalls ==
    {[strategy |-> "semantic", at |-> "called",
      sentences |-> [k \in 1..MaxSentences |-> Sentence(lens[k])],
      embeddings |-> embs,
      min_chunk_size |-> min, max_chunk_size |-> max,
      i |-> 1, current_chunk_sentences |-> <<>>,
      current_chunk_embeddings |-> <<>>, chunk_index |-> 0,
      start_char |-> 0, chunks |-> <<>>] :
        lens \in [1..MaxSentences -> 1..MaxSentenceLen],
        embs \in [1..MaxSentences -> SentenceEmbeddings],
        min \in {1, MaxSentenceLen}, max \in {MaxSentenceLen, 2 * MaxSentenceLen}}

\* _group_sentences_semantically up to the loop
SemanticEnter ==
    /\ chunking.strategy = "semantic"
    /\ chunking.at = "called"
    /\ chunking' = [chunking EXCEPT
           !.current_chunk_sentences = <<chunking.sentences[1]>>,
           !.current_chunk_embeddings = <<chunking.embeddings[1]>>,
           !.i = 2,
           !.at = "loop"]
    /\ OnlyChunking

\* the chunk made of the current group
SemanticChunk(c) ==
    LET chunk_content == Strip(JoinWithSpace(c.current_chunk_sentences))
    IN  [content |-> chunk_content, chunk_index |-> c.chunk_index,
         start_char |-> c.start_char,
         end_char |-> c.start_char + Len(chunk_content)]

\* one iteration of the loop over the sentences after the first
SemanticSentence ==
    /\ chunking.strategy = "semantic"
    /\ chunking.at = "loop"
    /\ chunking.i <= Len(chunking.sentences)
    /\ LET c == chunking
       IN  chunking' =
               IF ClosesGroup(c)
               THEN [c EXCEPT
                       !.chunks = Append(@, SemanticChunk(c)),
                       !.current_chunk_sentences = <<c.sentences[c.i]>>,
                       !.current_chunk_embeddings = <<c.embeddings[c.i]>>,
                       !.chunk_index = @ + 1,
                       !.start_char = SemanticChunk(c).end_char + 1,
                       !.i = @ + 1]
               ELSE [c EXCEPT
                       !.current_chunk_sentences = Append(@, c.sentences[c.i]),
                       !.current_chunk_embeddings = Append(@, c.embeddings[c.i]),
                       !.i = @ + 1]
    /\ OnlyChunking

\* the chunk of the last group, and the return
SemanticFinal ==
    /\ chunking.strategy = "semantic"
    /\ chunking.at = "loop"
    /\ chunking.i > Len(chunking.sentences)
    /\ chunking' = [chunking EXCEPT
           !.chunks = Append(@, SemanticChunk(chunking)),
           !.at = "returned"]
    /\ OnlyChunking

InitSemantic ==
    /\ IndexerIdle
    /\ chunking \in SemanticCalls

NextSemantic ==
    \/ SemanticEnter
    \/ SemanticSentence
    \/ SemanticFinal

SpecSemantic == InitSemantic /\ [][NextSemantic]_vars

\* C25: SemanticChunking closes the current sentence group before a
\* candidate sentence exactly when the similarity is below the threshold
\* and the group's text has at least min_chunk_size characters, or the
\* group's text plus the candidate would exceed max_chunk_size; hence no
\* group that was extended by a candidate is longer than max_chunk_size.
C25_GroupClosedWhenDue ==
    [][SemanticSentence =>
        LET c == chunking
            current_chunk_text == JoinWithSpace(c.current_chunk_sentences)
            due ==
                \/ /\ SimilarityBelowThreshold(c)
                   /\ Len(current_chunk_text) >= c.min_chunk_size
                \/ Len((current_chunk_text \o <<" ">>) \o c.sentences[c.i])
                      > c.max_chunk_size
            closed == Len(chunking'.chunks) = Len(c.chunks) + 1
        IN  /\ closed <=> due
            /\ ~closed
                  => Len(JoinWithSpace(chunking'.current_chunk_sentences))
                        <= c.max_chunk_size]_vars

(***************************************************************************)
(* Chunking strategies: the chunks of one document                         *)
(***************************************************************************)
InitChunkers ==
    /\ IndexerIdle
    /\ chunking \in (FixedSizeCalls \cup HierarchicalCalls) \cup SemanticCalls

NextChunkers ==
    \/ FixedSizeEnter
    \/ FixedSizeIteration
    \/ HierarchicalEnter
    \/ HierarchicalParent
    \/ SemanticEnter
    \/ SemanticSentence
    \/ SemanticFinal

SpecChunkers == InitChunkers /\ [][NextChunkers]_vars

\* C24: for every document and every chunking strategy, the chunk_index
\* values of the chunks returned for the document are exactly 0..n-1, none
\* repeated and none skipped.
C24_ChunkIndexDense ==
    chunking.at = "returned"
        => {chunking.chunks[k].chunk_index : k \in 1..Len(chunking.chunks)}
              = 0..(Len(chunking.chunks) - 1)
           /\ \A k, l \in 1..Len(chunking.chunks) :
                  k # l => chunking.chunks[k].chunk_index
                              # chunking.chunks[l].chunk_index

(***************************************************************************)
(* Queries word by word: enhancement, then filter extraction               *)
(***************************************************************************)
MaxQueryWords == 3    \* words of a query

\* \d+(?:\.\d{2})? and \d{1,2}[/-]\d{1,2}[/-]\d{2,4}
Numbers == {"50"}
Dates == {"12/25/2023"}

\* [><=]+
Operators == {">"}

DateWords == {"after", "before", "on"}

\* the words of the queries: a plain word, a brand, and the words the
\* patterns of the enhancer and of the filter extraction look for
Vocabulary == {"latte", "uber", "after", "on", "amount", ">", "50", "$50",
               "12/25/2023"}

QueryWords == UNION {[1..n -> Vocabulary] : n \in 0..MaxQueryWords}

\* the query as the caller writes it
RECURSIVE Text(_)
Text(words) ==
    IF words = <<>> THEN ""
    ELSE IF Len(words) = 1 THEN words[1]
    ELSE (words[1] \o " ") \o Text(Tail(words))

brand_expansions(word) ==
    CASE word = "uber" -> <<"uber", "ride", "transport", "taxi">>
      [] OTHER -> <<word>>

\* $50 -> amount 50 dollars
RECURSIVE DollarSign(_)
DollarSign(words) ==
    IF words = <<>> THEN <<>>
    ELSE IF Head(words) = "$50"
         THEN <<"amount", "50", "dollars">> \o DollarSign(Tail(words))
    ELSE <<Head(words)>> \o DollarSign(Tail(words))

\* 50 dollars -> amount 50
RECURSIVE DollarsWord(_)
DollarsWord(words) ==
    IF words = <<>> THEN <<>>
    ELSE IF /\ Len(words) >= 2
            /\ words[1] \in Numbers
            /\ words[2] \in {"dollar", "dollars"}
         THEN <<"amount", words[1]>> \o DollarsWord(Tail(Tail(words)))
    ELSE <<Head(words)>> \o DollarsWord(Tail(words))

\* 12/25/2023 -> date 12/25/2023
RECURSIVE DateWord(_)
DateWord(words) ==
    IF words = <<>> THEN <<>>
    ELSE IF Head(words) \in Dates
         THEN <<"date", Head(words)>> \o DateWord(Tail(words))
    ELSE <<Head(words)>> \o DateWord(Tail(words))

\* the synonym lists of expense_keywords that hold a word a query of the
\* vocabulary can come to contain
expense_keywords == {<<"when", "date", "time", "day", "month", "year">>}

\* a word, followed by the other synonyms of the first list that holds it
Expanded(word) ==
    IF \E syn \in expense_keywords : \E i \in 1..Len(syn) : syn[i] = word
    THEN LET syn == CHOOSE l \in expense_keywords :
                        \E i \in 1..Len(l) : l[i] = word
         IN  <<word>> \o SelectSeq(syn, LAMBDA w : w # word)
    ELSE <<word>>

RECURSIVE ExpandKeywords(_)
ExpandKeywords(words) ==
    IF words = <<>> THEN <<>>
    ELSE Expanded(Head(words)) \o ExpandKeywords(Tail(words))

\* QueryEnhancer.enhance_query on the words of a query, with the context
\* the search engine passes (a business_id only).  The last three patterns
\* look for "how much", "who paid" and "what for", which no query of the
\* vocabulary contains.
EnhanceWords(words) ==
    LET expanded == IF Len(words) = 1 THEN brand_expansions(words[1])
                    ELSE words
    IN  ExpandKeywords(DateWord(DollarsWord(DollarSign(expanded))))

\* the places where amount <op> <n> stands
AmountMatches(words) ==
    {i \in 1..(Len(words) - 2) :
        /\ words[i] = "amount"
        /\ words[i + 1] \in Operators
        /\ words[i + 2] \in Numbers}

\* the places where (after|before|on) <date> stands
DateMatches(words) ==
    {i \in 1..(Len(words) - 1) :
        /\ words[i] \in DateWords
        /\ words[i + 1] \in Dates}

\* float(amount)
Float(amount) == CASE amount = "50" -> 50 [] OTHER -> 0

\* filters taken from no query
NoQueryFilters == [amount_filter |-> <<>>, date_filter |-> None]

\* the words outside the matches
Cleaned(words, covered) ==
    LET keep == {i \in 1..Len(words) : i \notin covered}
        nth(k) == CHOOSE i \in keep : Cardinality({j \in keep : j <= i}) = k
    IN  [k \in 1..Cardinality(keep) |-> words[nth(k)]]

\* QueryEnhancer.extract_filters on the words of a query: the last amount
\* and the first date become filters and every match leaves the query.  A
\* query of the vocabulary, enhanced or not, has no word "category".
ExtractFilters(words) ==
    LET amounts == AmountMatches(words)
        dates == DateMatches(words)
        last_amount == CHOOSE i \in amounts : \A j \in amounts : j <= i
        first_date == CHOOSE i \in dates : \A j \in dates : i <= j
    IN  [query |-> Cleaned(words,
                       UNION {{i, i + 1, i + 2} : i \in amounts}
                           \cup UNION {{i, i + 1} : i \in dates}),
         filters |->
             [amount_filter |->
                  IF amounts = {} THEN <<>>
                  ELSE <<[operator |-> words[last_amount + 1],
                          value |-> Float(words[last_amount + 2])]>>,
              date_filter |->
                  IF dates = {} THEN None ELSE words[first_date + 1]]]

\* ExpenseDocumentSearchEngine.search for a caller that passes no filters:
\* the query handed to the vector store, the filters recorded in the
\* response, and the result sets the search may return
search_words(tbl, words, business_id, limit, enhance) ==
    LET lim == IF limit < max_limit THEN limit ELSE max_limit
        extracted == ExtractFilters(EnhanceWords(words))
        passed == IF enhance THEN extracted.query ELSE words
        enhanced_query == Text(passed)
        extracted_filters == IF enhance THEN extracted.filters
                             ELSE NoQueryFilters
    IN  IF Text(words) = ""
        THEN [searched |-> FALSE, passed |-> <<>>, enhanced_query |-> "",
              filters_applied |-> NoQueryFilters, results |-> {{}}]
        ELSE [searched |-> TRUE, passed |-> passed,
              enhanced_query |-> enhanced_query,
              filters_applied |-> extracted_filters,
              results |->
                  UNION {UNION {Best(D, lim) : D \in Deduplicated(raw)} :
                            raw \in search(tbl, enhanced_query, business_id,
                                           lim * 2, NoFilters,
                                           engine_similarity_threshold)}]

\* a caller has a query to send
InitQuery ==
    /\ now = 0
    /\ files = InitFiles
    /\ jobs = <<>>
    /\ job_queue = <<>>
    /\ active_jobs = EmptyDict
    /\ completed_jobs = EmptyDict
    /\ failed_jobs = <<>>
    /\ metrics = InitMetrics
    /\ indexer_attrs = {"_search_engine_ref"}
    /\ table = EmptyBag
    /\ document_cache = <<>>
    /\ last \in {[op |-> "query", words |-> w] : w \in QueryWords}
    /\ pool = <<>>
    /\ engine_indexer = NewIndexer
    /\ chunking = NoCall
    /\ in_flight = <<>>

SearchWords ==
    /\ last.op = "query"
    /\ \E words \in {last.words}, business_id \in Tenants, enhance \in BOOLEAN :
        LET response == search_words(table, words, business_id, 1, enhance)
        IN  \E results \in response.results :
                /\ last' = [op |-> "search_words", words |-> words,
                            enhance |-> enhance, searched |-> response.searched,
                            business_id |-> business_id,
                            passed |-> response.passed,
                            enhanced_query |-> response.enhanced_query,
                            filters_applied |-> response.filters_applied,
                            results |-> results]
                /\ UNCHANGED <<in_flight, chunking, pool, engine_indexer, now, files, jobs,
                               job_queue, active_jobs, completed_jobs,
                               failed_jobs, metrics, indexer_attrs, table,
                               document_cache>>

NextQuery == SearchWords

SpecQuery == InitQuery /\ [][NextQuery]_vars

\* C26: for every query that contains (after|before|on) <date>, a search
\* with query enhancement enabled records date_filter = <date> in
\* filters_applied, and the phrase is not in the query passed to the vector
\* store; likewise amount <op> <n> gives amount_filter {op, n}.
C26_FiltersFromQuery ==
    (last.op = "search_words" /\ last.enhance)
        => /\ DateMatches(last.words) # {}
                => /\ last.filters_applied.date_filter \in
                          {last.words[j + 1] : j \in DateMatches(last.words)}
                   /\ \A k \in 1..Len(last.passed) : last.passed[k] \notin Dates
           /\ AmountMatches(last.words) # {}
                => /\ last.filters_applied.amount_filter # <<>>
                   /\ last.filters_applied.amount_filter[1] \in
                          {[operator |-> last.words[j + 1],
                            value |-> Float(last.words[j + 2])] :
                               j \in AmountMatches(last.words)}

(***************************************************************************)
(* The status of a job while a batch runs                                  *)
(***************************************************************************)
\* the collections of the indexer that hold job j
CollectionsOf(j) ==
    {c \in {"job_queue", "active_jobs", "completed_jobs", "failed_jobs"} :
        CASE c = "job_queue" -> \E i \in 1..Len(job_queue) : job_queue[i] = j
          [] c = "active_jobs" ->
                 \E k \in DOMAIN active_jobs : active_jobs[k] = j
          [] c = "completed_jobs" ->
                 \E k \in DOMAIN completed_jobs : completed_jobs[k] = j
          [] c = "failed_jobs" ->
                 \E i \in 1..Len(failed_jobs) : failed_jobs[i].job = j}

\* C27: from the return of add_document until clear_completed_jobs removes
\* the job, get_job_status(job_id) returns a record, never None, in every
\* reachable state, the intermediate states of a parallel process_batch
\* included: the job is at all times in exactly one of job_queue,
\* active_jobs, completed_jobs and failed_jobs.  (No job is cleared in the
\* pool specification.)
C27_JobAlwaysTracked ==
    \A j \in 1..Len(jobs) :
        /\ get_job_status(State, jobs[j].job_id) # <<>>
        /\ Cardinality(CollectionsOf(j)) = 1

(***************************************************************************)
(* Every job taken off the queue ends                                      *)
(***************************************************************************)
NextPoolFair ==
    \/ AddDocumentToPool
    \/ ProcessNextJobFlaky
    \/ SubmitBatch
    \/ Worker
    \/ ReturnBatch

\* the executor runs every job it was given on some thread, the threads are
\* scheduled, and every call made by process_job returns or raises
SpecPoolFair ==
    /\ Init
    /\ [][NextPoolFair]_vars
    /\ WF_vars(Worker)
    /\ WF_vars(ReturnBatch)

\* job j was taken off the queue by process_batch and is not yet through
\* process_job
Dequeued(j) == \E w \in 1..Len(pool) : pool[w].job = j /\ pool[w].at = "process_job"

\* job j is out of active_jobs and filed as completed or failed, with
\* completed_at and processing_time set
Ended(j) ==
    /\ j <= Len(jobs)
    /\ jobs[j].status \in {"completed", "failed"}
    /\ jobs[j].completed_at # NoTime
    /\ jobs[j].processing_time # NoTime
    /\ "active_jobs" \notin CollectionsOf(j)
    /\ jobs[j].status = "completed" => "completed_jobs" \in CollectionsOf(j)
    /\ jobs[j].status = "failed" => "failed_jobs" \in CollectionsOf(j)

\* C29: every job removed from the queue by process_next_job or by
\* process_batch leaves active_jobs and ends in completed_jobs or in
\* failed_jobs with completed_at and processing_time set, given that every
\* parser, chunker and vector-store call returns or raises; no job stays
\* in status processing forever.
C29_DequeuedJobsEnd ==
    /\ \A j \in 1..MaxJobs : Dequeued(j) ~> Ended(j)
    /\ [][(last'.op = "process_next_job" /\ job_queue' # job_queue)
             => \E j \in 1..MaxJobs : j = Head(job_queue) /\ Ended(j)']_vars
    /\ [](\A j \in 1..Len(jobs) :
             jobs[j].status = "processing" => Dequeued(j))

\* a batch of two jobs has run on the pool, one job completed and one failed
C29_Witness ==
    /\ last.op = "process_batch"
    /\ last.returned
    /\ Len(last.batch) = 2
    /\ \E i, k \in 1..2 :
          /\ jobs[last.batch[i]].status = "completed"
          /\ jobs[last.batch[k]].status = "failed"
    /\ \A i \in 1..2 : Ended(last.batch[i])

(***************************************************************************)
(* POST /index requests on threads of their own                            *)
(***************************************************************************)
ConcurrentRequests ==
    [drive_bytes : {"receipt", "blank"}, business_id : {"t1", ""},
     document_id : DocIds, metadata : {NoMetadata}]

\* the indexer's part of the state becomes st's
IndexerBecomes(st) ==
    /\ now' = st.now
    /\ files' = st.files
    /\ jobs' = st.jobs
    /\ job_queue' = st.job_queue
    /\ active_jobs' = st.active_jobs
    /\ completed_jobs' = st.completed_jobs
    /\ failed_jobs' = st.failed_jobs
    /\ metrics' = st.metrics
    /\ indexer_attrs' = st.indexer_attrs
    /\ table' = st.table
    /\ document_cache' = st.document_cache

NoResponse == [http |-> 0, job_id |-> <<>>, status |-> None, chunks_created |-> 0]

\* handle_index_document up to the call of add_document: the fields are
\* checked, the file is downloaded and written to a temporary file
RequestArrives ==
    /\ Len(in_flight) < MaxRequests
    /\ \E request \in ConcurrentRequests, env \in FacadeEnvs :
          LET job_id == FacadeJobId(now)
              thread == [request |-> request, env |-> env, own |-> 0,
                         dequeued |-> 0, at |-> "responded",
                         response |-> NoResponse]
          IN /\ files[env.temp_path] = "missing"
             /\ IF request.business_id = "" \/ request.document_id = NoDoc
                THEN /\ in_flight' = Append(in_flight,
                            [thread EXCEPT !.response.http = 400])
                     /\ UNCHANGED files
                ELSE IF ~env.download_ok
                THEN /\ in_flight' = Append(in_flight,
                            [thread EXCEPT !.response =
                                [http |-> 500, job_id |-> job_id,
                                 status |-> "failed", chunks_created |-> 0]])
                     /\ UNCHANGED files
                ELSE /\ in_flight' = Append(in_flight,
                            [thread EXCEPT !.at = "add_document",
                                           !.response.job_id = job_id])
                     /\ files' = [files EXCEPT ![env.temp_path] = request.drive_bytes]
    /\ UNCHANGED <<now, jobs, job_queue, active_jobs, completed_jobs,
                   failed_jobs, metrics, indexer_attrs, table, document_cache,
                   last, pool, engine_indexer, chunking>>

\* indexer.add_document(temp_path, ...)
RequestAddDocument(r) ==
    /\ in_flight[r].at = "add_document"
    /\ \E added \in {add_document(State, in_flight[r].env.temp_path,
                                  in_flight[r].request.business_id,
                                  in_flight[r].request.document_id,
                                  in_flight[r].request.metadata, 1)} :
          /\ IndexerBecomes(added.st)
          /\ in_flight' = [in_flight EXCEPT ![r] =
                 IF added.raised # None
                 THEN [@ EXCEPT !.at = "finally",
                                !.response.http = 500,
                                !.response.status = "failed"]
                 ELSE [@ EXCEPT !.at = "process_next_job",
                                !.own = Len(added.st.jobs)]]
    /\ UNCHANGED <<last, pool, engine_indexer, chunking>>

\* indexer.process_next_job() and the response made of its result
RequestProcessNextJob(r) ==
    /\ in_flight[r].at = "process_next_job"
    /\ \E done \in {process_next_job(State, in_flight[r].env)} :
          /\ IndexerBecomes(done.st)
          /\ in_flight' = [in_flight EXCEPT ![r] =
                 [@ EXCEPT !.at = "finally",
                           !.dequeued = IF job_queue = <<>> THEN 0
                                        ELSE Head(job_queue),
                           !.response.http = 200,
                           !.response.status = "completed",
                           !.response.chunks_created =
                               done.result.chunks_created]]
    /\ UNCHANGED <<last, pool, engine_indexer, chunking>>

\* the finally clause: os.unlink(temp_path), then the response is sent
RequestFinally(r) ==
    /\ in_flight[r].at = "finally"
    /\ files' = [files EXCEPT ![in_flight[r].env.temp_path] = "missing"]
    /\ in_flight' = [in_flight EXCEPT ![r].at = "responded"]
    /\ UNCHANGED <<now, jobs, job_queue, active_jobs, completed_jobs,
                   failed_jobs, metrics, indexer_attrs, table, document_cache,
                   last, pool, engine_indexer, chunking>>

RequestThread ==
    \E r \in 1..Len(in_flight) :
        \/ RequestAddDocument(r)
        \/ RequestProcessNextJob(r)
        \/ RequestFinally(r)

NextRequests ==
    \/ RequestArrives
    \/ RequestThread

SpecRequests == Init /\ [][NextRequests]_vars

\* C28: when two POST /index requests run concurrently against the shared
\* indexer, in every interleaving the job a request dequeues with
\* process_next_job is the job it created with add_document, so that its
\* response reports the outcome of its own document, and its temporary
\* file is removed only after its own job has finished.
C28_RequestRunsOwnJob ==
    \A r \in 1..Len(in_flight) :
        in_flight[r].own # 0
           => /\ in_flight[r].at \in {"finally", "responded"}
                 => /\ in_flight[r].dequeued = in_flight[r].own
                    /\ in_flight[r].response.chunks_created
                          = jobs[in_flight[r].own].chunks_created
              /\ in_flight[r].at = "responded"
                 => jobs[in_flight[r].own].status \in {"completed", "failed"}

====
